---- MODULE Spec2Model ----
(***************************************************************************)
(* Model of drivers/net/can/flexcan.c (FLEXCAN CAN controller driver, built *)
(* with IRQ_CAN_RX defined: frames are drained by flexcan_napi_irq into the *)
(* can_rx_offload queue and delivered by can_rx_offload_napi_poll).         *)
(*                                                                         *)
(* A 32-bit register value is the set of its set bit positions (0..31), so *)
(* that | is \cup, & is \cap and BIT(31) needs no 64-bit arithmetic.        *)
(***************************************************************************)
EXTENDS Integers, Sequences, FiniteSets, TLC

(***************************************************************************)
(* Bounds of the model (not program constants).                            *)
(***************************************************************************)
\* largest polling weight handed to can_rx_offload_init_queue in SpecQueueInit
MaxWeight == 64
\* largest polling weight of the receive-path specification SpecRx
RxMaxWeight == 1
\* frames the bus delivers in one behaviour of the receive-path specification
MaxFrames == 4
\* failures of alloc_can_skb / alloc_can_err_skb in one behaviour
MaxAllocFail == 1
\* frames handed to flexcan_start_xmit in one behaviour of SpecFrame
MaxTx == 1
\* status-register observations handed to flexcan_poll_state in SpecErrState
MaxObs == 3
\* frames the hardware receive FIFO holds before it overflows
HwFifoDepth == 2
\* calls of flexcan_open in one behaviour
MaxOpens == 2
\* changes of the fault-confinement state in one behaviour
MaxFaults == 2
\* interrupts of other devices on the shared line in one behaviour
MaxShared == 1
\* frames the bus delivers while flexcan_close runs in SpecClose, or while
\* and after flexcan_open runs in SpecStart
MaxCloseFrames == 1
\* calls of flexcan_suspend in one behaviour
MaxSuspends == 2
\* calls of flexcan_poll_bus_err in one behaviour of SpecBusErr
MaxBusErrCalls == 2

(***************************************************************************)
(* 32-bit words as bit sets.                                               *)
(***************************************************************************)
U32Bits == 0..31

BIT(n) == {n}

\* the low w bits of the integer x, i.e. x & ((1 << w) - 1)
LowBits(x, w) == {i \in 0..(w - 1) : (x \div (2 ^ i)) % 2 = 1}

\* v << k and v >> k on 32-bit words
Shl(v, k) == {i + k : i \in v} \cap U32Bits
Shr(v, k) == {i - k : i \in {j \in v : j >= k}}

\* the integer a bit set (below bit 31) stands for
RECURSIVE ToInt(_)
ToInt(v) ==
    IF v = {} THEN 0
    ELSE LET i == CHOOSE j \in v : TRUE
         IN  (2 ^ i) + ToInt(v \ {i})

\* the w-bit field of v that starts at bit s, as an integer
Field(v, s, w) == ToInt(Shr(v, s) \cap (0..(w - 1)))

(***************************************************************************)
(* Register bits, flexcan.c:52-153.                                        *)
(***************************************************************************)
FLEXCAN_MCR_MDIS == BIT(31)
FLEXCAN_MCR_FRZ == BIT(30)
FLEXCAN_MCR_FEN == BIT(29)
FLEXCAN_MCR_HALT == BIT(28)
FLEXCAN_MCR_NOT_RDY == BIT(27)
FLEXCAN_MCR_WAK_MSK == BIT(26)
FLEXCAN_MCR_SOFTRST == BIT(25)
FLEXCAN_MCR_FRZ_ACK == BIT(24)
FLEXCAN_MCR_SUPV == BIT(23)
FLEXCAN_MCR_SLF_WAK == BIT(22)
FLEXCAN_MCR_WRN_EN == BIT(21)
FLEXCAN_MCR_LPM_ACK == BIT(20)
FLEXCAN_MCR_SRX_DIS == BIT(17)
FLEXCAN_MCR_MAXMB(x) == LowBits(x, 5)
FLEXCAN_MCR_IDAM_C == Shl(LowBits(2, 2), 8)

FLEXCAN_CTRL_PRESDIV(x) == Shl(LowBits(x, 8), 24)
FLEXCAN_CTRL_RJW(x) == Shl(LowBits(x, 2), 22)
FLEXCAN_CTRL_PSEG1(x) == Shl(LowBits(x, 3), 19)
FLEXCAN_CTRL_PSEG2(x) == Shl(LowBits(x, 3), 16)
FLEXCAN_CTRL_BOFF_MSK == BIT(15)
FLEXCAN_CTRL_ERR_MSK == BIT(14)
FLEXCAN_CTRL_CLK_SRC == BIT(13)
FLEXCAN_CTRL_LPB == BIT(12)
FLEXCAN_CTRL_TWRN_MSK == BIT(11)
FLEXCAN_CTRL_RWRN_MSK == BIT(10)
FLEXCAN_CTRL_SMP == BIT(7)
FLEXCAN_CTRL_BOFF_REC == BIT(6)
FLEXCAN_CTRL_TSYN == BIT(5)
FLEXCAN_CTRL_LBUF == BIT(4)
FLEXCAN_CTRL_LOM == BIT(3)
FLEXCAN_CTRL_PROPSEG(x) == LowBits(x, 3)
FLEXCAN_CTRL_ERR_BUS == FLEXCAN_CTRL_ERR_MSK
FLEXCAN_CTRL_ERR_STATE ==
    FLEXCAN_CTRL_TWRN_MSK \cup FLEXCAN_CTRL_RWRN_MSK \cup FLEXCAN_CTRL_BOFF_MSK
FLEXCAN_CTRL_ERR_ALL == FLEXCAN_CTRL_ERR_BUS \cup FLEXCAN_CTRL_ERR_STATE

FLEXCAN_ESR_TWRN_INT == BIT(17)
FLEXCAN_ESR_RWRN_INT == BIT(16)
FLEXCAN_ESR_BIT1_ERR == BIT(15)
FLEXCAN_ESR_BIT0_ERR == BIT(14)
FLEXCAN_ESR_ACK_ERR == BIT(13)
FLEXCAN_ESR_CRC_ERR == BIT(12)
FLEXCAN_ESR_FRM_ERR == BIT(11)
FLEXCAN_ESR_STF_ERR == BIT(10)
FLEXCAN_ESR_TX_WRN == BIT(9)
FLEXCAN_ESR_RX_WRN == BIT(8)
FLEXCAN_ESR_IDLE == BIT(7)
FLEXCAN_EST_FLT_CONF_SHIFT == 4
FLEXCAN_ESR_FLT_CONF_MASK == Shl(LowBits(3, 2), FLEXCAN_EST_FLT_CONF_SHIFT)
FLEXCAN_ESR_FLT_CONF_ACTIVE == Shl(LowBits(0, 2), FLEXCAN_EST_FLT_CONF_SHIFT)
FLEXCAN_ESR_FLT_CONF_PASSIVE == Shl(LowBits(1, 2), FLEXCAN_EST_FLT_CONF_SHIFT)
FLEXCAN_ESR_BOFF_INT == BIT(2)
FLEXCAN_ESR_ERR_INT == BIT(1)
FLEXCAN_ESR_WAK_INT == BIT(0)
FLEXCAN_ESR_ERR_BUS ==
    FLEXCAN_ESR_BIT1_ERR \cup FLEXCAN_ESR_BIT0_ERR \cup FLEXCAN_ESR_ACK_ERR
    \cup FLEXCAN_ESR_CRC_ERR \cup FLEXCAN_ESR_FRM_ERR \cup FLEXCAN_ESR_STF_ERR
FLEXCAN_ESR_ALL_INT ==
    FLEXCAN_ESR_TWRN_INT \cup FLEXCAN_ESR_RWRN_INT \cup FLEXCAN_ESR_BOFF_INT
    \cup FLEXCAN_ESR_ERR_INT \cup FLEXCAN_ESR_WAK_INT

FLEXCAN_TX_BUF_ID == 13
FLEXCAN_IFLAG_BUF(x) == BIT(x)
FLEXCAN_IFLAG_RX_FIFO_OVERFLOW == BIT(7)
FLEXCAN_IFLAG_RX_FIFO_AVAILABLE == BIT(5)
FLEXCAN_IFLAG_DEFAULT ==
    FLEXCAN_IFLAG_RX_FIFO_OVERFLOW \cup FLEXCAN_IFLAG_RX_FIFO_AVAILABLE
    \cup FLEXCAN_IFLAG_BUF(FLEXCAN_TX_BUF_ID)

FLEXCAN_MB_CNT_CODE(x) == Shl(LowBits(x, 4), 24)
FLEXCAN_MB_CNT_SRR == BIT(22)
FLEXCAN_MB_CNT_IDE == BIT(21)
FLEXCAN_MB_CNT_RTR == BIT(20)

FLEXCAN_TIMEOUT_US == 50

\* 8 for RX fifo and 2 error handling
FLEXCAN_NAPI_WEIGHT == 8 + 2

(***************************************************************************)
(* struct can_frame as the driver uses it: can_id carries the identifier   *)
(* and the EFF/RTR/ERR flags in its upper three bits.                      *)
(***************************************************************************)
CAN_EFF_FLAG == BIT(31)
CAN_RTR_FLAG == BIT(30)
CAN_ERR_FLAG == BIT(29)
CAN_SFF_MASK == 0..10
CAN_EFF_MASK == 0..28
CAN_MAX_DLC == 8

\* get_can_dlc(): a length code above 8 reads as 8
get_can_dlc(i) == IF i > CAN_MAX_DLC THEN CAN_MAX_DLC ELSE i

\* be32_to_cpup(&data[k]): four payload bytes, first byte most significant
be32_to_cpup(data, k) ==
    Shl(LowBits(data[k + 1], 8), 24) \cup Shl(LowBits(data[k + 2], 8), 16)
    \cup Shl(LowBits(data[k + 3], 8), 8) \cup LowBits(data[k + 4], 8)

\* the four bytes of a word stored least significant byte first
cpu_to_le32(w) ==
    <<Field(w, 0, 8), Field(w, 8, 8), Field(w, 16, 8), Field(w, 24, 8)>>

\* *(__be32 *)p = cpu_to_be32(w): the four bytes the word is stored as
cpu_to_be32(w) ==
    <<Field(w, 24, 8), Field(w, 16, 8), Field(w, 8, 8), Field(w, 0, 8)>>

(***************************************************************************)
(* Pure functions of the driver.                                           *)
(***************************************************************************)
\* fls(): 1-based position of the most significant set bit, fls(0) = 0
RECURSIVE fls(_)
fls(x) == IF x = 0 THEN 0 ELSE 1 + fls(x \div 2)

\* can_rx_offload_init_queue: skb_queue_len_max = 2 << fls(weight); *= 4
QueueLenMaxFor(weight) == (2 * (2 ^ fls(weight))) * 4

\* a derivation that looks at the TX warning bit only
DeriveStateTxOnly(reg_esr) ==
    LET flt == reg_esr \cap FLEXCAN_ESR_FLT_CONF_MASK
    IN  IF flt = FLEXCAN_ESR_FLT_CONF_ACTIVE
        THEN IF reg_esr \cap FLEXCAN_ESR_TX_WRN = {}
             THEN "ERROR_ACTIVE"
             ELSE "ERROR_WARNING"
        ELSE IF flt = FLEXCAN_ESR_FLT_CONF_PASSIVE
             THEN "ERROR_PASSIVE"
             ELSE "BUS_OFF"

\* flexcan_poll_state, lines 707-717: the state derived from reg_esr
DeriveState(reg_esr) ==
    LET flt == reg_esr \cap FLEXCAN_ESR_FLT_CONF_MASK
    IN  IF flt = FLEXCAN_ESR_FLT_CONF_ACTIVE
        THEN IF reg_esr \cap (FLEXCAN_ESR_TX_WRN \cup FLEXCAN_ESR_RX_WRN) = {}
             THEN "ERROR_ACTIVE"
             ELSE "ERROR_WARNING"
        ELSE IF flt = FLEXCAN_ESR_FLT_CONF_PASSIVE
             THEN "ERROR_PASSIVE"
             ELSE "BUS_OFF"

\* enum can_state, in its numeric order
StateRank(s) ==
    CASE s = "ERROR_ACTIVE" -> 0
      [] s = "ERROR_WARNING" -> 1
      [] s = "ERROR_PASSIVE" -> 2
      [] s = "BUS_OFF" -> 3
      [] s = "STOPPED" -> 4
      [] s = "SLEEPING" -> 5

\* a bit-timing encoding that stores phase_seg2 itself, not phase_seg2 - 1
BittimingCtrlNoBias(reg, bt, mode) ==
    (reg \ (FLEXCAN_CTRL_PRESDIV(255) \cup FLEXCAN_CTRL_RJW(3)
            \cup FLEXCAN_CTRL_PSEG1(7) \cup FLEXCAN_CTRL_PSEG2(7)
            \cup FLEXCAN_CTRL_PROPSEG(7) \cup FLEXCAN_CTRL_LPB
            \cup FLEXCAN_CTRL_SMP \cup FLEXCAN_CTRL_LOM))
    \cup FLEXCAN_CTRL_PRESDIV(bt.brp - 1)
    \cup FLEXCAN_CTRL_PSEG1(bt.phase_seg1 - 1)
    \cup FLEXCAN_CTRL_PSEG2(bt.phase_seg2)
    \cup FLEXCAN_CTRL_RJW(bt.sjw - 1)
    \cup FLEXCAN_CTRL_PROPSEG(bt.prop_seg - 1)

\* a bit-timing encoding that rewrites the timing fields only and leaves
\* the mode bits it read set
BittimingCtrlKeepsMode(reg, bt, mode) ==
    (reg \ (FLEXCAN_CTRL_PRESDIV(255) \cup FLEXCAN_CTRL_RJW(3)
            \cup FLEXCAN_CTRL_PSEG1(7) \cup FLEXCAN_CTRL_PSEG2(7)
            \cup FLEXCAN_CTRL_PROPSEG(7)))
    \cup FLEXCAN_CTRL_PRESDIV(bt.brp - 1)
    \cup FLEXCAN_CTRL_PSEG1(bt.phase_seg1 - 1)
    \cup FLEXCAN_CTRL_PSEG2(bt.phase_seg2 - 1)
    \cup FLEXCAN_CTRL_RJW(bt.sjw - 1)
    \cup FLEXCAN_CTRL_PROPSEG(bt.prop_seg - 1)
    \cup (IF "LOOPBACK" \in mode THEN FLEXCAN_CTRL_LPB ELSE {})
    \cup (IF "LISTENONLY" \in mode THEN FLEXCAN_CTRL_LOM ELSE {})
    \cup (IF "3_SAMPLES" \in mode THEN FLEXCAN_CTRL_SMP ELSE {})

\* flexcan_set_bittiming: the value written to CTRL, from the value read
BittimingCtrl(reg, bt, mode) ==
    LET cleared ==
            reg \ (FLEXCAN_CTRL_PRESDIV(255) \cup FLEXCAN_CTRL_RJW(3)
                   \cup FLEXCAN_CTRL_PSEG1(7) \cup FLEXCAN_CTRL_PSEG2(7)
                   \cup FLEXCAN_CTRL_PROPSEG(7) \cup FLEXCAN_CTRL_LPB
                   \cup FLEXCAN_CTRL_SMP \cup FLEXCAN_CTRL_LOM)
        timing ==
            FLEXCAN_CTRL_PRESDIV(bt.brp - 1)
            \cup FLEXCAN_CTRL_PSEG1(bt.phase_seg1 - 1)
            \cup FLEXCAN_CTRL_PSEG2(bt.phase_seg2 - 1)
            \cup FLEXCAN_CTRL_RJW(bt.sjw - 1)
            \cup FLEXCAN_CTRL_PROPSEG(bt.prop_seg - 1)
    IN  cleared \cup timing
        \cup (IF "LOOPBACK" \in mode THEN FLEXCAN_CTRL_LPB ELSE {})
        \cup (IF "LISTENONLY" \in mode THEN FLEXCAN_CTRL_LOM ELSE {})
        \cup (IF "3_SAMPLES" \in mode THEN FLEXCAN_CTRL_SMP ELSE {})

\* flexcan_start_xmit, lines 522-551: the transmit mailbox after the frame
\* cf has been written over the mailbox contents mb
XmitMailbox(cf, mb) ==
    LET eff == cf.can_id \cap CAN_EFF_FLAG # {}
        ctrl0 == FLEXCAN_MB_CNT_CODE(12) \cup Shl(LowBits(cf.can_dlc, 8), 16)
        ctrl1 == IF eff
                 THEN ctrl0 \cup FLEXCAN_MB_CNT_IDE \cup FLEXCAN_MB_CNT_SRR
                 ELSE ctrl0
        id == IF eff
              THEN cf.can_id \cap CAN_EFF_MASK
              ELSE Shl(cf.can_id \cap CAN_SFF_MASK, 18)
    IN  [can_ctrl |-> IF cf.can_id \cap CAN_RTR_FLAG # {}
                      THEN ctrl1 \cup FLEXCAN_MB_CNT_RTR
                      ELSE ctrl1,
         can_id |-> id,
         data0 |-> IF cf.can_dlc > 0 THEN be32_to_cpup(cf.data, 0) ELSE mb.data0,
         data1 |-> IF cf.can_dlc > 3 THEN be32_to_cpup(cf.data, 4) ELSE mb.data1]

\* flexcan_mailbox_read, lines 871-883: the frame decoded from mailbox mb
MailboxFrame(mb) ==
    LET id == IF mb.can_ctrl \cap FLEXCAN_MB_CNT_IDE # {}
              THEN (mb.can_id \cap CAN_EFF_MASK) \cup CAN_EFF_FLAG
              ELSE Shr(mb.can_id, 18) \cap CAN_SFF_MASK
    IN  [can_id |-> IF mb.can_ctrl \cap FLEXCAN_MB_CNT_RTR # {}
                    THEN id \cup CAN_RTR_FLAG
                    ELSE id,
         can_dlc |-> get_can_dlc(Field(mb.can_ctrl, 16, 4)),
         data |-> cpu_to_be32(mb.data0) \o cpu_to_be32(mb.data1)]

(***************************************************************************)
(* State.                                                                  *)
(***************************************************************************)
VARIABLES
    mcr, ctrl, esr, ecr, imask1, iflag1,  \* struct flexcan_regs
    mb_tx,              \* regs->cantxfg[FLEXCAN_TX_BUF_ID]
    hwfifo,             \* receive FIFO; its head is read at regs->cantxfg[0]
    xceiver,            \* the transceiver supply is enabled
    can_state,          \* priv->can.state
    ctrlmode,           \* priv->can.ctrlmode
    bittiming,          \* priv->can.bittiming
    reg_ctrl_default,   \* priv->reg_ctrl_default
    skb_queue,          \* offload->skb_queue
    skb_queue_len_max,  \* offload->skb_queue_len_max
    napi,               \* offload->napi: weight, NAPI_STATE_SCHED, on the poll list
    txq,                \* the net device's transmit queue: "stopped" or "started"
    echo,               \* the echo skb of can_put_echo_skb(skb, dev, 0)
    stats,              \* dev->stats and priv->can.can_stats
    sink,               \* frames handed to netif_receive_skb, oldest first
    irq_line,           \* request_irq() has installed flexcan_napi_irq
    irq,                \* flexcan_napi_irq: position and locals
    poll,               \* can_rx_offload_napi_poll: position and locals
    ctl,                \* the serialized control path: position and locals
    arrivals,           \* number of the last frame the bus staged in the FIFO
    env,                \* events the environment may still produce
    capHist,            \* what happened since the drain last found the queue full
    features,           \* priv->devtype_data->features; device_may_wakeup()
    priv_napi,          \* priv->napi, which this build never initialises
    arg                 \* argument and result of the function under test

vars ==
    <<mcr, ctrl, esr, ecr, imask1, iflag1, mb_tx, hwfifo, xceiver, can_state,
      ctrlmode, bittiming, reg_ctrl_default, skb_queue, skb_queue_len_max,
      napi, txq, echo, stats, sink, irq_line, irq, poll, ctl, arrivals,
      env, capHist, features, priv_napi, arg>>

ctlRegs == <<mcr, ctrl, esr, ecr, imask1>>
modeVars == <<ctrlmode, bittiming, features>>
cfgVars == <<modeVars, reg_ctrl_default, xceiver, can_state, priv_napi>>
txVars == <<mb_tx, txq, echo>>
testVars == <<ctl, arg>>
busVars == <<arrivals, env>>

NoSkb == <<>>

ZeroData == <<0, 0, 0, 0, 0, 0, 0, 0>>

ZeroStats ==
    [rx_packets |-> 0, rx_bytes |-> 0, rx_dropped |-> 0, rx_errors |-> 0,
     rx_over_errors |-> 0, tx_packets |-> 0, tx_bytes |-> 0, tx_errors |-> 0,
     tx_dropped |-> 0,
     bus_error |-> 0, error_warning |-> 0, error_passive |-> 0, bus_off |-> 0]

IrqIdle ==
    [pc |-> "idle", reg_iflag1 |-> {}, reg_esr |-> {}, drop |-> FALSE,
     skb |-> NoSkb, received |-> 0, handled |-> FALSE, ret |-> "none"]

PollIdle == [pc |-> "idle", work_done |-> 0]

\* the events the environment may still produce in this behaviour
NoEvents ==
    [frames |-> 0, allocFails |-> 0, opens |-> 0, faults |-> 0,
     shared |-> 0, obs |-> 0, tx |-> 0, suspends |-> 0]

\* fn: the entry point running; pc: its position; op: the position inside
\* the chip-control helper called at pc; timeout: that helper's counter;
\* err: the local err of flexcan_chip_start; ret: the helper that returned
\* last and its return value
CtlIdle ==
    [fn |-> "none", pc |-> "idle", op |-> "none", timeout |-> 0, err |-> "OK",
     ret |-> <<>>]

(***************************************************************************)
(* Kernel services the driver calls.                                       *)
(***************************************************************************)
\* netif_napi_add(): the context starts disabled, NAPI_STATE_SCHED set
netif_napi_add(weight) == [weight |-> weight, sched |-> TRUE, listed |-> FALSE]

\* napi_enable(): clears NAPI_STATE_SCHED
napi_enable(n) == [n EXCEPT !.sched = FALSE]

\* napi_schedule(): if NAPI_STATE_SCHED was clear, set it and put the context
\* on the poll list; otherwise nothing
napi_schedule(n) ==
    IF n.sched THEN n ELSE [n EXCEPT !.sched = TRUE, !.listed = TRUE]

\* a napi_complete() that leaves the context on the poll list
napi_completeKeepsListed(n) == n

\* napi_complete(): off the poll list, NAPI_STATE_SCHED cleared
napi_complete(n) == [n EXCEPT !.sched = FALSE, !.listed = FALSE]

\* a queueing that links the buffer at the head of the list
skb_queue_head(q, skb) == <<skb>> \o q

\* skb_queue_tail() and skb_dequeue() on offload->skb_queue
skb_queue_tail(q, skb) == Append(q, skb)

\* a dequeue that unlinks two buffers instead of one
skb_dequeue_two(q) == IF Len(q) > 1 THEN Tail(Tail(q)) ELSE <<>>

skb_dequeue(q) == Tail(q)

(***************************************************************************)
(* The bus and the hardware receive FIFO.                                  *)
(***************************************************************************)
ZeroMailbox == [can_ctrl |-> {}, can_id |-> {}, data0 |-> {}, data1 |-> {}]

\* the n-th frame on the bus: standard identifier n, n % 9 payload bytes
BusFrame(n) ==
    [can_id |-> LowBits(n, 11), can_dlc |-> n % 9,
     data |-> [i \in 1..8 |-> IF i <= n % 9 THEN (n + i) % 256 ELSE 0]]

\* the controller is neither disabled nor halted
ChipRunning ==
    mcr \cap (FLEXCAN_MCR_MDIS \cup FLEXCAN_MCR_HALT \cup FLEXCAN_MCR_SOFTRST
              \cup FLEXCAN_MCR_FRZ_ACK \cup FLEXCAN_MCR_LPM_ACK) = {}

\* A frame arrives while the FIFO has room: it is staged and FIFO-available
\* is raised.
HwRxFrame ==
    /\ env.frames > 0
    /\ ChipRunning
    /\ Len(hwfifo) < HwFifoDepth
    /\ arrivals' = arrivals + 1
    /\ env' = [env EXCEPT !.frames = @ - 1]
    /\ hwfifo' = Append(hwfifo, XmitMailbox(BusFrame(arrivals + 1), ZeroMailbox))
    /\ iflag1' = iflag1 \cup FLEXCAN_IFLAG_RX_FIFO_AVAILABLE
    /\ UNCHANGED <<ctlRegs, cfgVars, txVars, testVars, skb_queue,
                   skb_queue_len_max, napi, stats, sink, irq_line, irq, poll,
                   capHist>>

\* A frame arrives while the FIFO is full: the frame is lost and the
\* controller raises FIFO-overflow.
HwRxOverflow ==
    /\ env.frames > 0
    /\ ChipRunning
    /\ Len(hwfifo) = HwFifoDepth
    /\ arrivals' = arrivals + 1
    /\ env' = [env EXCEPT !.frames = @ - 1]
    /\ iflag1' = iflag1 \cup FLEXCAN_IFLAG_RX_FIFO_OVERFLOW
    /\ UNCHANGED <<ctlRegs, hwfifo, cfgVars, txVars, testVars, skb_queue,
                   skb_queue_len_max, napi, stats, sink, irq_line, irq, poll,
                   capHist>>

\* flexcan_write(FLEXCAN_IFLAG_RX_FIFO_AVAILABLE, &regs->iflag1): the head of
\* the FIFO is released; the flag stays up while frames remain
FifoAfterAck(fifo) == IF fifo = <<>> THEN fifo ELSE Tail(fifo)

IflagAfterAck(flags, fifo) ==
    IF FifoAfterAck(fifo) = <<>>
    THEN flags \ FLEXCAN_IFLAG_RX_FIFO_AVAILABLE
    ELSE flags

(***************************************************************************)
(* flexcan_napi_irq and the interrupt-time drain.                          *)
(***************************************************************************)
\* can_rx_offload_offload_one, lines 899-900: the local variable drop
QueueFull(len, max) == len > max

\* Lines 1010-1029: both registers are captured, then the FIFO branch is
\* chosen.  Reading ESR clears its bus-error bits (flexcan.c:796).
IrqEnter ==
    /\ irq.pc = "idle"
    /\ irq_line
    /\ irq' = [pc |-> IF FLEXCAN_IFLAG_RX_FIFO_AVAILABLE \subseteq iflag1
                      THEN "offload_one"
                      ELSE "tail",
               reg_iflag1 |-> iflag1, reg_esr |-> esr, drop |-> FALSE,
               skb |-> NoSkb, received |-> 0,
               handled |-> FLEXCAN_IFLAG_RX_FIFO_AVAILABLE \subseteq iflag1,
               ret |-> "none"]
    /\ esr' = esr \ FLEXCAN_ESR_ERR_BUS
    /\ UNCHANGED <<mcr, ctrl, ecr, imask1, iflag1, hwfifo, cfgVars, txVars,
                   testVars, skb_queue, skb_queue_len_max, napi, stats, sink,
                   irq_line, poll, arrivals, capHist>>

\* an interrupt source of the controller is asserted and unmasked
IrqPending ==
    \/ iflag1 \cap imask1 # {}
    \/ FLEXCAN_ESR_BOFF_INT \subseteq esr /\ FLEXCAN_CTRL_BOFF_MSK \subseteq ctrl
    \/ FLEXCAN_ESR_ERR_INT \subseteq esr /\ FLEXCAN_CTRL_ERR_MSK \subseteq ctrl
    \/ FLEXCAN_ESR_TWRN_INT \subseteq esr /\ FLEXCAN_CTRL_TWRN_MSK \subseteq ctrl
    \/ FLEXCAN_ESR_RWRN_INT \subseteq esr /\ FLEXCAN_CTRL_RWRN_MSK \subseteq ctrl

\* the handler runs because the controller interrupts
IrqEntry == IrqPending /\ IrqEnter /\ UNCHANGED env

\* the handler runs because another device on the shared line interrupts
\* (request_irq with IRQF_SHARED, line 1314)
IrqSharedEntry ==
    /\ ~IrqPending
    /\ env.shared > 0
    /\ IrqEnter
    /\ env' = [env EXCEPT !.shared = @ - 1]

\* a drain loop that reads the next frame after a discarded one
AfterOffloadOneRetry(skb) ==
    IF skb = NoSkb THEN "offload_one" ELSE "queue_tail"

\* Line 929: the loop goes on only while offload_one returns a buffer
AfterOffloadOne(skb) == IF skb = NoSkb THEN "schedule" ELSE "queue_tail"

\* One pass of the loop condition of can_rx_offload_irq_offload_fifo:
\* can_rx_offload_offload_one calling flexcan_mailbox_read.  allocOk is the
\* outcome of alloc_can_skb, which is only called when drop is false.
IrqOffloadOne ==
    /\ irq.pc = "offload_one"
    /\ LET drop == QueueFull(Len(skb_queue), skb_queue_len_max)
       IN  IF ~(FLEXCAN_IFLAG_RX_FIFO_AVAILABLE \subseteq iflag1)
           THEN \* mailbox_read returns 0: no skb, the loop ends
                /\ irq' = [irq EXCEPT !.pc = "schedule", !.drop = drop,
                                      !.skb = NoSkb]
                /\ UNCHANGED <<iflag1, hwfifo, stats, env, capHist>>
           ELSE \E allocOk \in (IF drop THEN {FALSE}
                                 ELSE IF env.allocFails > 0
                                 THEN BOOLEAN
                                 ELSE {TRUE}) :
                LET skb == IF allocOk
                           THEN <<MailboxFrame(Head(hwfifo))>>
                           ELSE NoSkb
                IN  /\ hwfifo' = FifoAfterAck(hwfifo)
                    /\ iflag1' = IflagAfterAck(iflag1, hwfifo)
                    /\ stats' = IF skb = NoSkb
                                THEN [stats EXCEPT !.rx_dropped = @ + 1]
                                ELSE stats
                    /\ irq' = [irq EXCEPT
                                 !.pc = AfterOffloadOne(skb),
                                 !.drop = drop, !.skb = skb]
                    /\ env' = IF drop \/ allocOk THEN env
                               ELSE [env EXCEPT !.allocFails = @ - 1]
                    /\ capHist' = IF drop THEN "dropped" ELSE capHist
    /\ UNCHANGED <<ctlRegs, cfgVars, txVars, testVars, skb_queue,
                   skb_queue_len_max, napi, sink, irq_line, poll, arrivals>>

\* a drain loop that hands the frame to the stack itself
IrqDeliverDirect ==
    /\ irq.pc = "queue_tail"
    /\ sink' = Append(sink, [cf |-> irq.skb[1], ctx |-> "irq"])
    /\ irq' = [irq EXCEPT !.pc = "offload_one", !.skb = NoSkb,
                          !.received = @ + 1]
    /\ capHist' = IF capHist = "polled1" THEN "accepted1" ELSE "none"
    /\ UNCHANGED <<ctlRegs, iflag1, hwfifo, cfgVars, txVars, testVars,
                   skb_queue, skb_queue_len_max, napi, stats, irq_line, poll,
                   busVars>>

\* Lines 931-932: the body of the drain loop
IrqQueueTail ==
    /\ irq.pc = "queue_tail"
    /\ skb_queue' = skb_queue_tail(skb_queue, irq.skb[1])
    /\ irq' = [irq EXCEPT !.pc = "offload_one", !.skb = NoSkb,
                          !.received = @ + 1]
    /\ capHist' = IF capHist = "polled1" THEN "accepted1" ELSE "none"
    /\ UNCHANGED <<ctlRegs, iflag1, hwfifo, cfgVars, txVars, testVars,
                   skb_queue_len_max, napi, stats, sink, irq_line, poll,
                   busVars>>

\* Lines 935-938: the consumer is scheduled if anything was queued
IrqSchedule ==
    /\ irq.pc = "schedule"
    /\ napi' = IF irq.received > 0 THEN napi_schedule(napi) ELSE napi
    /\ irq' = [irq EXCEPT !.pc = "tail"]
    /\ UNCHANGED <<ctlRegs, iflag1, hwfifo, cfgVars, txVars, testVars,
                   skb_queue, skb_queue_len_max, stats, sink, irq_line, poll,
                   busVars, capHist>>

\* can_get_echo_skb(dev, 0): the length of the echoed frame, 0 if none
can_get_echo_skb(e) == IF e = NoSkb THEN 0 ELSE e[1].can_dlc

\* an acknowledge that leaves the error interrupt bit pending
EsrAckNoErrInt(reg_esr) ==
    reg_esr \cap (FLEXCAN_ESR_ALL_INT \ FLEXCAN_ESR_ERR_INT)

\* Line 1073: the value written back to ESR
EsrAck(reg_esr) == reg_esr \cap FLEXCAN_ESR_ALL_INT

\* Lines 1031-1091: overflow counting, transmit completion, acknowledge of
\* the captured ESR interrupt bits, return.  irq.handled is the local
\* variable handled; the value returned is the constant of line 1091.
IrqTail ==
    /\ irq.pc = "tail"
    /\ LET ovf == FLEXCAN_IFLAG_RX_FIFO_OVERFLOW \subseteq irq.reg_iflag1
           txd == FLEXCAN_IFLAG_BUF(FLEXCAN_TX_BUF_ID) \subseteq irq.reg_iflag1
           ack == EsrAck(irq.reg_esr)
       IN  /\ iflag1' = (iflag1
                         \ (IF ovf THEN FLEXCAN_IFLAG_RX_FIFO_OVERFLOW ELSE {}))
                        \ (IF txd THEN FLEXCAN_IFLAG_BUF(FLEXCAN_TX_BUF_ID)
                           ELSE {})
           /\ stats' = [stats EXCEPT
                          !.rx_over_errors = IF ovf THEN @ + 1 ELSE @,
                          !.rx_errors = IF ovf THEN @ + 1 ELSE @,
                          !.tx_bytes = IF txd THEN @ + can_get_echo_skb(echo)
                                       ELSE @,
                          !.tx_packets = IF txd THEN @ + 1 ELSE @]
           /\ echo' = IF txd THEN NoSkb ELSE echo
           /\ txq' = IF txd THEN "started" ELSE txq
           /\ esr' = esr \ ack
           /\ irq' = [irq EXCEPT !.pc = "idle",
                                 !.handled = @ \/ ovf \/ txd \/ ack # {},
                                 !.ret = "IRQ_HANDLED"]
    /\ UNCHANGED <<mcr, ctrl, ecr, imask1, mb_tx, hwfifo, cfgVars, testVars,
                   skb_queue, skb_queue_len_max, napi, sink, irq_line, poll,
                   busVars, capHist>>

\* The same lines of the handler taken one block at a time (SpecIrq), so
\* that the controller can raise flags between the blocks.
\* Lines 1031-1037: overflow counting
IrqOverflow ==
    /\ irq.pc = "tail"
    /\ LET ovf == FLEXCAN_IFLAG_RX_FIFO_OVERFLOW \subseteq irq.reg_iflag1
       IN  /\ iflag1' = iflag1
                         \ (IF ovf THEN FLEXCAN_IFLAG_RX_FIFO_OVERFLOW ELSE {})
           /\ stats' = [stats EXCEPT
                          !.rx_over_errors = IF ovf THEN @ + 1 ELSE @,
                          !.rx_errors = IF ovf THEN @ + 1 ELSE @]
           /\ irq' = [irq EXCEPT !.pc = "tx_complete", !.handled = @ \/ ovf]
    /\ UNCHANGED <<ctlRegs, hwfifo, cfgVars, txVars, testVars, skb_queue,
                   skb_queue_len_max, napi, sink, irq_line, poll, busVars,
                   capHist>>

\* Lines 1061-1069: transmission complete
IrqTxComplete ==
    /\ irq.pc = "tx_complete"
    /\ LET txd == FLEXCAN_IFLAG_BUF(FLEXCAN_TX_BUF_ID) \subseteq irq.reg_iflag1
       IN  /\ iflag1' = iflag1
                         \ (IF txd THEN FLEXCAN_IFLAG_BUF(FLEXCAN_TX_BUF_ID)
                            ELSE {})
           /\ stats' = [stats EXCEPT
                          !.tx_bytes = IF txd THEN @ + can_get_echo_skb(echo)
                                       ELSE @,
                          !.tx_packets = IF txd THEN @ + 1 ELSE @]
           /\ echo' = IF txd THEN NoSkb ELSE echo
           /\ txq' = IF txd THEN "started" ELSE txq
           /\ irq' = [irq EXCEPT !.pc = "esr_ack", !.handled = @ \/ txd]
    /\ UNCHANGED <<ctlRegs, mb_tx, hwfifo, cfgVars, testVars, skb_queue,
                   skb_queue_len_max, napi, sink, irq_line, poll, busVars,
                   capHist>>

\* Lines 1071-1091: acknowledge of the captured ESR interrupt bits, return
IrqEsrAck ==
    /\ irq.pc = "esr_ack"
    /\ esr' = esr \ EsrAck(irq.reg_esr)
    /\ irq' = [irq EXCEPT !.pc = "idle",
                          !.handled = @ \/ EsrAck(irq.reg_esr) # {},
                          !.ret = "IRQ_HANDLED"]
    /\ UNCHANGED <<mcr, ctrl, ecr, imask1, iflag1, hwfifo, cfgVars, txVars,
                   testVars, skb_queue, skb_queue_len_max, napi, stats, sink,
                   irq_line, poll, busVars, capHist>>

(***************************************************************************)
(* can_rx_offload_napi_poll, run by the softirq while the context is on    *)
(* the poll list.                                                          *)
(***************************************************************************)
\* Lines 462-470: one evaluation of the loop condition and, if it holds,
\* the loop body
PollLoop ==
    /\ \/ poll.pc = "idle" /\ napi.listed
       \/ poll.pc = "loop"
    /\ LET wd == IF poll.pc = "idle" THEN 0 ELSE poll.work_done
       IN  IF wd < napi.weight /\ skb_queue # <<>>
           THEN /\ skb_queue' = skb_dequeue(skb_queue)
                /\ stats' = [stats EXCEPT
                               !.rx_packets = @ + 1,
                               !.rx_bytes = @ + Head(skb_queue).can_dlc]
                /\ sink' = Append(sink, [cf |-> Head(skb_queue), ctx |-> "napi"])
                /\ poll' = [pc |-> "loop", work_done |-> wd + 1]
                /\ capHist' = IF capHist = "dropped" THEN "polled1" ELSE "none"
           ELSE /\ poll' = [pc |-> "done", work_done |-> wd]
                /\ UNCHANGED <<skb_queue, stats, sink, capHist>>
    /\ UNCHANGED <<ctlRegs, iflag1, hwfifo, cfgVars, txVars, testVars,
                   skb_queue_len_max, napi, irq_line, irq, busVars>>

\* Lines 472-474: napi_complete when fewer than quota frames were delivered
PollComplete ==
    /\ poll.pc = "done"
    /\ IF poll.work_done < napi.weight
       THEN /\ napi' = napi_complete(napi)
            /\ poll' = [poll EXCEPT !.pc = "recheck"]
       ELSE /\ napi' = napi
            /\ poll' = [poll EXCEPT !.pc = "idle"]
    /\ UNCHANGED <<ctlRegs, iflag1, hwfifo, cfgVars, txVars, testVars,
                   skb_queue, skb_queue_len_max, stats, sink, irq_line, irq,
                   busVars, capHist>>

\* Lines 476-483: reschedule if the queue is not empty, then return
PollRecheck ==
    /\ poll.pc = "recheck"
    /\ napi' = IF skb_queue # <<>> THEN napi_schedule(napi) ELSE napi
    /\ poll' = [poll EXCEPT !.pc = "idle"]
    /\ UNCHANGED <<ctlRegs, iflag1, hwfifo, cfgVars, txVars, testVars,
                   skb_queue, skb_queue_len_max, stats, sink, irq_line, irq,
                   busVars, capHist>>

(***************************************************************************)
(* Register values flexcan_chip_start writes.                              *)
(***************************************************************************)
\* Lines 1176-1184: the module-control register
StartMcr(reg) ==
    (reg \ FLEXCAN_MCR_MAXMB(255))
    \cup FLEXCAN_MCR_FRZ \cup FLEXCAN_MCR_FEN \cup FLEXCAN_MCR_HALT
    \cup FLEXCAN_MCR_SUPV \cup FLEXCAN_MCR_WRN_EN \cup FLEXCAN_MCR_IDAM_C
    \cup FLEXCAN_MCR_SRX_DIS \cup FLEXCAN_MCR_WAK_MSK \cup FLEXCAN_MCR_SLF_WAK
    \cup FLEXCAN_MCR_MAXMB(FLEXCAN_TX_BUF_ID)

\* Lines 1198-1209: the control register, saved as reg_ctrl_default
StartCtrl(reg, feat, mode) ==
    ((reg \ FLEXCAN_CTRL_TSYN)
     \cup FLEXCAN_CTRL_BOFF_REC \cup FLEXCAN_CTRL_LBUF
     \cup FLEXCAN_CTRL_ERR_STATE)
    \cup (IF "BROKEN_ERR_STATE" \in feat \/ "BERR_REPORTING" \in mode
          THEN FLEXCAN_CTRL_ERR_MSK
          ELSE {})

(***************************************************************************)
(* The controller's side of the module-control register.                   *)
(***************************************************************************)
\* status bits of MCR that the controller drives; a register write does not
\* change them
McrStatus ==
    FLEXCAN_MCR_LPM_ACK \cup FLEXCAN_MCR_FRZ_ACK \cup FLEXCAN_MCR_NOT_RDY

\* flexcan_write(val, &regs->mcr)
WriteMcr(old, val) == (val \ McrStatus) \cup (old \cap McrStatus)

hwOnlyMcr ==
    <<ctrl, esr, ecr, imask1, iflag1, hwfifo, cfgVars, txVars, testVars,
      skb_queue, skb_queue_len_max, napi, stats, sink, irq_line, irq, poll,
      busVars, capHist>>

\* The controller acknowledges the low-power request MDIS, or its removal.
\* Nothing bounds how long it takes: the driver's polls may all miss it.
HwLpmAck ==
    /\ (FLEXCAN_MCR_MDIS \subseteq mcr) # (FLEXCAN_MCR_LPM_ACK \subseteq mcr)
    /\ mcr' = IF FLEXCAN_MCR_MDIS \subseteq mcr
              THEN mcr \cup FLEXCAN_MCR_LPM_ACK
              ELSE mcr \ FLEXCAN_MCR_LPM_ACK
    /\ UNCHANGED hwOnlyMcr

\* The controller enters freeze mode (FRZ and HALT set) or leaves it.
HwFrzAck ==
    /\ ((FLEXCAN_MCR_FRZ \cup FLEXCAN_MCR_HALT) \subseteq mcr)
         # (FLEXCAN_MCR_FRZ_ACK \subseteq mcr)
    /\ mcr' = IF (FLEXCAN_MCR_FRZ \cup FLEXCAN_MCR_HALT) \subseteq mcr
              THEN mcr \cup FLEXCAN_MCR_FRZ_ACK
              ELSE mcr \ FLEXCAN_MCR_FRZ_ACK
    /\ UNCHANGED hwOnlyMcr

\* The soft reset requested through SOFTRST completes: the bit clears, the
\* controller is halted with freeze enabled, flags and masks are reset.
HwSoftReset ==
    /\ FLEXCAN_MCR_SOFTRST \subseteq mcr
    /\ mcr' = (mcr \ FLEXCAN_MCR_SOFTRST)
              \cup FLEXCAN_MCR_FRZ \cup FLEXCAN_MCR_HALT
    /\ esr' = {}
    /\ ecr' = [txerr |-> 0, rxerr |-> 0]
    /\ imask1' = {}
    /\ iflag1' = {}
    /\ hwfifo' = <<>>
    /\ UNCHANGED <<ctrl, cfgVars, txVars, testVars, skb_queue,
                   skb_queue_len_max, napi, stats, sink, irq_line, irq, poll,
                   busVars, capHist>>

\* the fault-confinement value the controller reports once it is bus-off
EsrFltConfBusOff == Shl(LowBits(2, 2), FLEXCAN_EST_FLT_CONF_SHIFT)

\* the status bits and error counters that come with fault state f
FaultEsr(f) ==
    IF f = FLEXCAN_ESR_FLT_CONF_PASSIVE
    THEN f \cup FLEXCAN_ESR_TX_WRN \cup FLEXCAN_ESR_TWRN_INT
         \cup FLEXCAN_ESR_ERR_INT \cup FLEXCAN_ESR_ACK_ERR
    ELSE IF f = EsrFltConfBusOff
    THEN f \cup FLEXCAN_ESR_BOFF_INT \cup FLEXCAN_ESR_ERR_INT
    ELSE f

FaultEcr(f) ==
    IF f = FLEXCAN_ESR_FLT_CONF_PASSIVE
    THEN [txerr |-> 128, rxerr |-> 0]
    ELSE [txerr |-> 0, rxerr |-> 0]

\* Errors on the bus move the controller to another fault-confinement
\* state; the interrupt flags of the change are raised in ESR.
HwFault ==
    /\ env.faults > 0
    /\ ChipRunning
    /\ \E f \in {FLEXCAN_ESR_FLT_CONF_ACTIVE, FLEXCAN_ESR_FLT_CONF_PASSIVE,
                 EsrFltConfBusOff} :
          /\ f # esr \cap FLEXCAN_ESR_FLT_CONF_MASK
          /\ esr' = (esr \cap FLEXCAN_ESR_ALL_INT) \cup FaultEsr(f)
          /\ ecr' = FaultEcr(f)
    /\ env' = [env EXCEPT !.faults = @ - 1]
    /\ UNCHANGED <<mcr, ctrl, imask1, iflag1, hwfifo, cfgVars, txVars,
                   testVars, skb_queue, skb_queue_len_max, napi, stats, sink,
                   irq_line, irq, poll, arrivals, capHist>>

\* An error on the bus: the controller sets the bits of the error in ESR
\* (one kind of error, or all at once) and raises the error interrupt flag.
HwBusError ==
    /\ env.faults > 0
    /\ ChipRunning
    /\ \E b \in {FLEXCAN_ESR_BIT1_ERR, FLEXCAN_ESR_BIT0_ERR,
                 FLEXCAN_ESR_ACK_ERR, FLEXCAN_ESR_CRC_ERR,
                 FLEXCAN_ESR_FRM_ERR, FLEXCAN_ESR_STF_ERR,
                 FLEXCAN_ESR_ERR_BUS} :
          esr' = esr \cup b \cup FLEXCAN_ESR_ERR_INT
    /\ env' = [env EXCEPT !.faults = @ - 1]
    /\ UNCHANGED <<mcr, ctrl, ecr, imask1, iflag1, hwfifo, cfgVars, txVars,
                   testVars, skb_queue, skb_queue_len_max, napi, stats, sink,
                   irq_line, irq, poll, arrivals, capHist>>

(***************************************************************************)
(* flexcan_chip_enable, _disable, _freeze, _unfreeze and _softreset: each   *)
(* writes MCR, polls a status bit a bounded number of times and decides on *)
(* a final read.                                                           *)
(***************************************************************************)
\* the helper that is called at position pc of flexcan_chip_start,
\* flexcan_chip_stop, flexcan_suspend or flexcan_resume, or on its own
ChipOp(pc) ==
    CASE pc = "enable" -> "enable"
      [] pc = "disable" -> "disable"
      [] pc = "freeze" -> "freeze"
      [] pc = "softreset" -> "softreset"
      [] pc = "unfreeze" -> "unfreeze"
      [] pc = "out_chip_disable" -> "disable"
      [] pc = "stop_freeze" -> "freeze"
      [] pc = "stop_disable" -> "disable"
      [] pc = "suspend_disable" -> "disable"
      [] pc = "resume_enable" -> "enable"
      [] OTHER -> "none"

\* helpers whose disable request flips MDIS
ChipOpMcrToggle(op, reg) ==
    CASE op = "enable" -> reg \ FLEXCAN_MCR_MDIS
      [] op = "disable" -> IF FLEXCAN_MCR_MDIS \subseteq reg
                           THEN reg \ FLEXCAN_MCR_MDIS
                           ELSE reg \cup FLEXCAN_MCR_MDIS
      [] op = "freeze" -> reg \cup FLEXCAN_MCR_HALT
      [] op = "unfreeze" -> reg \ FLEXCAN_MCR_HALT
      [] op = "softreset" -> FLEXCAN_MCR_SOFTRST

\* helpers whose freeze request leaves MCR as it was
ChipOpMcrNoHalt(op, reg) ==
    CASE op = "enable" -> reg \ FLEXCAN_MCR_MDIS
      [] op = "disable" -> reg \cup FLEXCAN_MCR_MDIS
      [] op = "freeze" -> reg
      [] op = "unfreeze" -> reg \ FLEXCAN_MCR_HALT
      [] op = "softreset" -> FLEXCAN_MCR_SOFTRST

\* the value the helper writes to MCR, from the value it read
ChipOpMcr(op, reg) ==
    CASE op = "enable" -> reg \ FLEXCAN_MCR_MDIS
      [] op = "disable" -> reg \cup FLEXCAN_MCR_MDIS
      [] op = "freeze" -> reg \cup FLEXCAN_MCR_HALT
      [] op = "unfreeze" -> reg \ FLEXCAN_MCR_HALT
      [] op = "softreset" -> FLEXCAN_MCR_SOFTRST

\* helpers whose disable waits for the acknowledge to go away
ChipOpBusyInverted(op, reg) ==
    CASE op = "enable" -> FLEXCAN_MCR_LPM_ACK \subseteq reg
      [] op = "disable" -> FLEXCAN_MCR_LPM_ACK \subseteq reg
      [] op = "freeze" -> ~(FLEXCAN_MCR_FRZ_ACK \subseteq reg)
      [] op = "unfreeze" -> FLEXCAN_MCR_FRZ_ACK \subseteq reg
      [] op = "softreset" -> FLEXCAN_MCR_SOFTRST \subseteq reg

\* the condition the helper waits to become false, on the MCR value read
ChipOpBusy(op, reg) ==
    CASE op = "enable" -> FLEXCAN_MCR_LPM_ACK \subseteq reg
      [] op = "disable" -> ~(FLEXCAN_MCR_LPM_ACK \subseteq reg)
      [] op = "freeze" -> ~(FLEXCAN_MCR_FRZ_ACK \subseteq reg)
      [] op = "unfreeze" -> FLEXCAN_MCR_FRZ_ACK \subseteq reg
      [] op = "softreset" -> FLEXCAN_MCR_SOFTRST \subseteq reg

\* the initial value of the helper's timeout counter
ChipOpTimeout(op, bt) ==
    IF op = "freeze"
    THEN (1000 * 1000 * 10) \div bt.bitrate
    ELSE FLEXCAN_TIMEOUT_US \div 10

ctlOnly ==
    <<ctrl, esr, ecr, imask1, iflag1, hwfifo, cfgVars, txVars, arg,
      skb_queue, skb_queue_len_max, napi, stats, sink, irq_line, irq, poll,
      busVars, capHist>>

\* the helper reads MCR, changes its bit and writes MCR back
ChipOpCall ==
    /\ ctl.op = "call"
    /\ mcr' = WriteMcr(mcr, ChipOpMcr(ChipOp(ctl.pc), mcr))
    /\ ctl' = [ctl EXCEPT !.op = "poll",
                          !.timeout = ChipOpTimeout(ChipOp(ctl.pc), bittiming)]
    /\ UNCHANGED ctlOnly

\* one evaluation of while (timeout-- && busy): the loop goes on only when
\* the counter was not zero and the status bit still shows busy
ChipOpPoll ==
    /\ ctl.op = "poll"
    /\ ctl' = IF ctl.timeout = 0
              THEN [ctl EXCEPT !.op = "final"]
              ELSE IF ChipOpBusy(ChipOp(ctl.pc), mcr)
              THEN [ctl EXCEPT !.timeout = @ - 1]
              ELSE [ctl EXCEPT !.timeout = @ - 1, !.op = "final"]
    /\ UNCHANGED <<mcr, ctlOnly>>

\* a flexcan_chip_stop that gives up when the freeze times out
AfterChipOpAbort(c, err) ==
    LET r == [c EXCEPT !.ret = <<ChipOp(c.pc), err>>, !.timeout = 0]
    IN  CASE c.fn = "twice" ->
               IF err = "OK" /\ c.ret = <<>>
               THEN [r EXCEPT !.op = "again"]
               ELSE [r EXCEPT !.op = "done"]
          [] c.fn # "twice" /\ c.pc = "enable" ->
               IF err # "OK"
               THEN [r EXCEPT !.pc = "return", !.op = "none", !.err = err]
               ELSE [r EXCEPT !.pc = "softreset", !.op = "call"]
          [] c.pc = "softreset" ->
               IF err # "OK"
               THEN [r EXCEPT !.pc = "out_chip_disable", !.op = "call",
                              !.err = err]
               ELSE [r EXCEPT !.pc = "config", !.op = "none"]
          [] c.pc = "unfreeze" ->
               IF err # "OK"
               THEN [r EXCEPT !.pc = "out_transceiver_disable",
                              !.op = "none", !.err = err]
               ELSE [r EXCEPT !.pc = "finish", !.op = "none"]
          [] c.pc = "out_chip_disable" ->
               [r EXCEPT !.pc = "return", !.op = "none"]
          [] c.pc = "stop_freeze" ->
               IF err # "OK"
               THEN [r EXCEPT !.pc = "free_irq", !.op = "none"]
               ELSE [r EXCEPT !.pc = "stop_disable", !.op = "call"]
          [] c.pc = "stop_disable" ->
               [r EXCEPT !.pc = "stop_finish", !.op = "none"]
          [] c.pc = "suspend_disable" ->
               [r EXCEPT !.pc = "suspend_finish", !.op = "none", !.err = err]
          [] c.pc = "resume_enable" ->
               [r EXCEPT !.fn = "none", !.pc = "idle", !.op = "none",
                         !.err = err]

\* where flexcan_chip_start, flexcan_chip_stop, flexcan_suspend or
\* flexcan_resume goes on after the helper called at c.pc returned err
AfterChipOp(c, err) ==
    LET r == [c EXCEPT !.ret = <<ChipOp(c.pc), err>>, !.timeout = 0]
    IN  CASE c.fn = "twice" ->
               IF err = "OK" /\ c.ret = <<>>
               THEN [r EXCEPT !.op = "again"]
               ELSE [r EXCEPT !.op = "done"]
          [] c.fn # "twice" /\ c.pc = "enable" ->
               IF err # "OK"
               THEN [r EXCEPT !.pc = "return", !.op = "none", !.err = err]
               ELSE [r EXCEPT !.pc = "softreset", !.op = "call"]
          [] c.pc = "softreset" ->
               IF err # "OK"
               THEN [r EXCEPT !.pc = "out_chip_disable", !.op = "call",
                              !.err = err]
               ELSE [r EXCEPT !.pc = "config", !.op = "none"]
          [] c.pc = "unfreeze" ->
               IF err # "OK"
               THEN [r EXCEPT !.pc = "out_transceiver_disable",
                              !.op = "none", !.err = err]
               ELSE [r EXCEPT !.pc = "finish", !.op = "none"]
          [] c.pc = "out_chip_disable" ->
               [r EXCEPT !.pc = "return", !.op = "none"]
          [] c.pc = "stop_freeze" ->
               [r EXCEPT !.pc = "stop_disable", !.op = "call"]
          [] c.pc = "stop_disable" ->
               [r EXCEPT !.pc = "stop_finish", !.op = "none"]
          [] c.pc = "suspend_disable" ->
               [r EXCEPT !.pc = "suspend_finish", !.op = "none", !.err = err]
          [] c.pc = "resume_enable" ->
               [r EXCEPT !.fn = "none", !.pc = "idle", !.op = "none",
                         !.err = err]

\* the final read of MCR decides the helper's return value
ChipOpFinal ==
    /\ ctl.op = "final"
    /\ ctl' = AfterChipOp(ctl, IF ChipOpBusy(ChipOp(ctl.pc), mcr)
                               THEN "ETIMEDOUT"
                               ELSE "OK")
    /\ UNCHANGED <<mcr, ctlOnly>>

\* a helper that returned 0 is called again at once; arg keeps the value of
\* MCR the first call left
ChipOpAgain ==
    /\ ctl.op = "again"
    /\ arg' = <<mcr>>
    /\ ctl' = [ctl EXCEPT !.op = "call"]
    /\ UNCHANGED <<mcr, ctrl, esr, ecr, imask1, iflag1, hwfifo, cfgVars,
                   txVars, skb_queue, skb_queue_len_max, napi, stats, sink,
                   irq_line, irq, poll, busVars, capHist>>

(***************************************************************************)
(* flexcan_open, flexcan_chip_start, flexcan_close, flexcan_chip_stop.     *)
(***************************************************************************)
\* the device is up: flexcan_open returned 0 and flexcan_close has not run
DeviceUp == ctl.fn = "none" /\ irq_line

\* flexcan_open, lines 1314-1323: request_irq, can_rx_offload_add_fifo with
\* FLEXCAN_NAPI_WEIGHT, then flexcan_chip_start is entered
OpenBegin ==
    /\ ctl.fn = "none"
    /\ ~irq_line
    /\ env.opens > 0
    /\ env' = [env EXCEPT !.opens = @ - 1]
    /\ irq_line' = TRUE
    /\ skb_queue_len_max' = QueueLenMaxFor(FLEXCAN_NAPI_WEIGHT)
    /\ skb_queue' = <<>>
    /\ napi' = netif_napi_add(FLEXCAN_NAPI_WEIGHT)
    /\ ctl' = [CtlIdle EXCEPT !.fn = "open", !.pc = "enable", !.op = "call"]
    /\ UNCHANGED <<ctlRegs, iflag1, hwfifo, cfgVars, txVars, arg, stats, sink,
                   irq, poll, arrivals, capHist>>

\* flexcan_chip_start, lines 1162-1245: bit timing, MCR, CTRL, the mailboxes,
\* then flexcan_transceiver_enable, whose regulator may fail
ChipStartConfig ==
    /\ ctl.pc = "config"
    /\ mcr' = WriteMcr(mcr, StartMcr(mcr))
    /\ ctrl' = StartCtrl(BittimingCtrl(ctrl, bittiming, ctrlmode),
                         features, ctrlmode)
    /\ reg_ctrl_default' = ctrl'
    /\ mb_tx' = [ZeroMailbox EXCEPT !.can_ctrl = FLEXCAN_MB_CNT_CODE(4)]
    /\ hwfifo' = <<>>
    /\ \E ok \in BOOLEAN :
          IF ok
          THEN /\ xceiver' = TRUE
               /\ ctl' = [ctl EXCEPT !.pc = "unfreeze", !.op = "call"]
          ELSE /\ xceiver' = xceiver
               /\ ctl' = [ctl EXCEPT !.pc = "out_chip_disable", !.op = "call",
                                     !.err = "EXCEIVER"]
    /\ UNCHANGED <<esr, ecr, imask1, iflag1, modeVars, can_state, priv_napi,
                   txq, echo, arg, skb_queue, skb_queue_len_max, napi, stats,
                   sink, irq_line, irq, poll, busVars, capHist>>

\* lines 1252-1261: the state is set, the FIFO interrupts are unmasked
ChipStartFinish ==
    /\ ctl.pc = "finish"
    /\ can_state' = "ERROR_ACTIVE"
    /\ imask1' = FLEXCAN_IFLAG_DEFAULT
    /\ ctl' = [ctl EXCEPT !.pc = "return"]
    /\ UNCHANGED <<mcr, ctrl, esr, ecr, iflag1, hwfifo, modeVars,
                   reg_ctrl_default, xceiver, priv_napi, txVars, arg,
                   skb_queue, skb_queue_len_max, napi, stats, sink, irq_line,
                   irq, poll, busVars, capHist>>

\* lines 1257-1258, label out_transceiver_disable
ChipStartUnwind ==
    /\ ctl.pc = "out_transceiver_disable"
    /\ xceiver' = FALSE
    /\ ctl' = [ctl EXCEPT !.pc = "out_chip_disable", !.op = "call"]
    /\ UNCHANGED <<ctlRegs, iflag1, hwfifo, modeVars, reg_ctrl_default,
                   can_state, priv_napi, txVars, arg, skb_queue,
                   skb_queue_len_max, napi, stats, sink, irq_line, irq, poll,
                   busVars, capHist>>

\* flexcan_open, lines 1324-1346, after flexcan_chip_start returned: on
\* success can_rx_offload_enable and netif_start_queue; on failure free_irq,
\* which waits for a running handler
OpenReturn ==
    /\ ctl.fn = "open"
    /\ ctl.pc = "return"
    /\ IF ctl.err = "OK"
       THEN /\ napi' = napi_enable(napi)
            /\ txq' = "started"
            /\ irq_line' = irq_line
       ELSE /\ irq.pc = "idle"
            /\ irq_line' = FALSE
            /\ UNCHANGED <<napi, txq>>
    /\ ctl' = CtlIdle
    /\ UNCHANGED <<ctlRegs, iflag1, hwfifo, cfgVars, mb_tx, echo, arg,
                   skb_queue, skb_queue_len_max, stats, sink, irq, poll,
                   busVars, capHist>>

\* flexcan_close, line 1353: netif_stop_queue
CloseBegin ==
    /\ DeviceUp
    /\ txq' = "stopped"
    /\ ctl' = [CtlIdle EXCEPT !.fn = "close", !.pc = "napi_disable"]
    /\ UNCHANGED <<ctlRegs, iflag1, hwfifo, cfgVars, mb_tx, echo, arg,
                   skb_queue, skb_queue_len_max, napi, stats, sink, irq_line,
                   irq, poll, busVars, capHist>>

\* line 1354: napi_disable(&priv->napi) waits until it can set
\* NAPI_STATE_SCHED of priv->napi; the queue's own context offload->napi is
\* left as it is.  flexcan_chip_stop is entered.
CloseNapiDisable ==
    /\ ctl.pc = "napi_disable"
    /\ ~priv_napi.sched
    /\ priv_napi' = [sched |-> TRUE]
    /\ ctl' = [ctl EXCEPT !.pc = "stop_freeze", !.op = "call"]
    /\ UNCHANGED <<ctlRegs, iflag1, hwfifo, modeVars, reg_ctrl_default,
                   xceiver, can_state, txVars, arg, skb_queue,
                   skb_queue_len_max, napi, stats, sink, irq_line, irq, poll,
                   busVars, capHist>>

\* flexcan_chip_stop, lines 1281-1287, after freeze and disable
ChipStopFinish ==
    /\ ctl.pc = "stop_finish"
    /\ imask1' = {}
    /\ ctrl' = reg_ctrl_default \ FLEXCAN_CTRL_ERR_ALL
    /\ xceiver' = FALSE
    /\ can_state' = "STOPPED"
    /\ ctl' = [ctl EXCEPT !.pc = "free_irq"]
    /\ UNCHANGED <<mcr, esr, ecr, iflag1, hwfifo, modeVars, reg_ctrl_default,
                   priv_napi, txVars, arg, skb_queue, skb_queue_len_max, napi,
                   stats, sink, irq_line, irq, poll, busVars, capHist>>

\* flexcan_close, lines 1357-1365: free_irq waits for a running handler
CloseFinish ==
    /\ ctl.pc = "free_irq"
    /\ irq.pc = "idle"
    /\ irq_line' = FALSE
    /\ ctl' = CtlIdle
    /\ UNCHANGED <<ctlRegs, iflag1, hwfifo, cfgVars, txVars, arg, skb_queue,
                   skb_queue_len_max, napi, stats, sink, irq, poll, busVars,
                   capHist>>

(***************************************************************************)
(* flexcan_suspend and flexcan_resume.  netif_running(dev) holds between   *)
(* flexcan_open and flexcan_close; a device that may wake the system is    *)
(* put into stop mode, which needs no register access on controllers       *)
(* without FLEXCAN_HAS_V10_FEATURES, any other is disabled.                *)
(***************************************************************************)
\* flexcan_suspend, lines 1650-1661: on a running device the transmit queue
\* is stopped and the device detached, then flexcan_chip_disable is called
\* unless the device may wake the system; line 1663 otherwise
flexcan_suspend ==
    /\ ctl.fn = "none"
    /\ can_state # "SLEEPING"
    /\ irq.pc = "idle"
    /\ env.suspends > 0
    /\ env' = [env EXCEPT !.suspends = @ - 1]
    /\ txq' = IF irq_line THEN "stopped" ELSE txq
    /\ IF irq_line /\ ~("WAKEUP" \in features)
       THEN /\ ctl' = [CtlIdle EXCEPT !.fn = "suspend",
                                      !.pc = "suspend_disable", !.op = "call"]
            /\ can_state' = can_state
       ELSE /\ ctl' = CtlIdle
            /\ can_state' = "SLEEPING"
    /\ UNCHANGED <<ctlRegs, iflag1, hwfifo, modeVars, reg_ctrl_default,
                   xceiver, priv_napi, mb_tx, echo, arg, skb_queue,
                   skb_queue_len_max, napi, stats, sink, irq_line, irq, poll,
                   arrivals, capHist>>

\* flexcan_suspend, lines 1663-1666, after flexcan_chip_disable returned:
\* ctl.err is the value flexcan_suspend returns
SuspendFinish ==
    /\ ctl.pc = "suspend_finish"
    /\ can_state' = "SLEEPING"
    /\ ctl' = [ctl EXCEPT !.fn = "none", !.pc = "idle", !.op = "none"]
    /\ UNCHANGED <<ctlRegs, iflag1, hwfifo, modeVars, reg_ctrl_default,
                   xceiver, priv_napi, txVars, arg, skb_queue,
                   skb_queue_len_max, napi, stats, sink, irq_line, irq, poll,
                   busVars, capHist>>

\* flexcan_resume, lines 1675-1686, called for a device whose
\* flexcan_suspend returned 0: the state is set first; on a running device
\* the device is attached and the transmit queue started, then
\* flexcan_chip_enable is called unless the device may wake the system
flexcan_resume ==
    /\ ctl.fn = "none"
    /\ ctl.err = "OK"
    /\ can_state = "SLEEPING"
    /\ can_state' = "ERROR_ACTIVE"
    /\ txq' = IF irq_line THEN "started" ELSE txq
    /\ ctl' = IF irq_line /\ ~("WAKEUP" \in features)
              THEN [CtlIdle EXCEPT !.fn = "resume", !.pc = "resume_enable",
                                   !.op = "call"]
              ELSE CtlIdle
    /\ UNCHANGED <<ctlRegs, iflag1, hwfifo, modeVars, reg_ctrl_default,
                   xceiver, priv_napi, mb_tx, echo, arg, skb_queue,
                   skb_queue_len_max, napi, stats, sink, irq_line, irq, poll,
                   busVars, capHist>>

(***************************************************************************)
(* The error-state monitor: flexcan_poll_state and do_state.               *)
(***************************************************************************)
\* linux/can/error.h, as used by do_state
CAN_ERR_CRTL == BIT(2)
CAN_ERR_PROT == BIT(3)
CAN_ERR_BUSOFF == BIT(6)
CAN_ERR_CRTL_RX_WARNING == 4
CAN_ERR_CRTL_TX_WARNING == 8
CAN_ERR_CRTL_RX_PASSIVE == 16
CAN_ERR_CRTL_TX_PASSIVE == 32
CAN_ERR_PROT_ACTIVE == 64
CAN_ERR_DLC == 8

\* alloc_can_err_skb(): an error frame with no class bit set yet
ErrFrame == [can_id |-> CAN_ERR_FLAG, can_dlc |-> CAN_ERR_DLC, data |-> ZeroData]

\* a monitor that reports every observation as a change
StateNeverUnchanged(new_state, state) == FALSE

\* a flexcan_poll_state that records the new state before it allocates
StateRecordedBeforeAlloc(state, new_state) == new_state

\* flexcan_poll_state, lines 723-725: priv->can.state when alloc_can_err_skb
\* has failed; the assignment of line 728 has not been reached
StateAfterAllocFail(state, new_state) == state

\* flexcan_poll_state, line 720: the early return "state hasn't changed"
StateUnchanged(new_state, state) == new_state = state

\* a do_state that adds the passive code to the warning code in data[1]
do_stateCombines(cf, state, new_state, bec) ==
    LET inRange(lo) ==
            /\ StateRank(new_state) >= StateRank(lo)
            /\ StateRank(new_state) <= StateRank("BUS_OFF")
        warn == state = "ERROR_ACTIVE" /\ inRange("ERROR_WARNING")
        pass == state \in {"ERROR_ACTIVE", "ERROR_WARNING"}
                /\ inRange("ERROR_PASSIVE")
        cf1 == IF warn
               THEN [cf EXCEPT !.can_id = @ \cup CAN_ERR_CRTL,
                               !.data[2] = IF bec.txerr > bec.rxerr
                                           THEN CAN_ERR_CRTL_TX_WARNING
                                           ELSE CAN_ERR_CRTL_RX_WARNING]
               ELSE cf
        cf2 == IF pass
               THEN [cf1 EXCEPT !.can_id = @ \cup CAN_ERR_CRTL,
                                !.data[2] = @ + (IF bec.txerr > bec.rxerr
                                                 THEN CAN_ERR_CRTL_TX_PASSIVE
                                                 ELSE CAN_ERR_CRTL_RX_PASSIVE)]
               ELSE cf1
        cf3 == IF new_state = "ERROR_ACTIVE"
               THEN [cf2 EXCEPT !.can_id = @ \cup CAN_ERR_PROT,
                                !.data[3] = CAN_ERR_PROT_ACTIVE]
               ELSE IF new_state = "BUS_OFF"
               THEN [cf2 EXCEPT !.can_id = @ \cup CAN_ERR_BUSOFF]
               ELSE cf2
    IN  [cf |-> cf3, error_warning |-> warn, error_passive |-> pass,
         can_bus_off |-> new_state = "BUS_OFF"]

\* a do_state that blames the side with the smaller error counter
do_stateBlameSmaller(cf, state, new_state, bec) ==
    LET inRange(lo) ==
            /\ StateRank(new_state) >= StateRank(lo)
            /\ StateRank(new_state) <= StateRank("BUS_OFF")
        warn == state = "ERROR_ACTIVE" /\ inRange("ERROR_WARNING")
        pass == state \in {"ERROR_ACTIVE", "ERROR_WARNING"}
                /\ inRange("ERROR_PASSIVE")
        cf1 == IF warn
               THEN [cf EXCEPT !.can_id = @ \cup CAN_ERR_CRTL,
                               !.data[2] = IF bec.txerr < bec.rxerr
                                           THEN CAN_ERR_CRTL_TX_WARNING
                                           ELSE CAN_ERR_CRTL_RX_WARNING]
               ELSE cf
        cf2 == IF pass
               THEN [cf1 EXCEPT !.can_id = @ \cup CAN_ERR_CRTL,
                                !.data[2] = IF bec.txerr < bec.rxerr
                                            THEN CAN_ERR_CRTL_TX_PASSIVE
                                            ELSE CAN_ERR_CRTL_RX_PASSIVE]
               ELSE cf1
        cf3 == IF new_state = "ERROR_ACTIVE"
               THEN [cf2 EXCEPT !.can_id = @ \cup CAN_ERR_PROT,
                                !.data[3] = CAN_ERR_PROT_ACTIVE]
               ELSE IF new_state = "BUS_OFF"
               THEN [cf2 EXCEPT !.can_id = @ \cup CAN_ERR_BUSOFF]
               ELSE cf2
    IN  [cf |-> cf3, error_warning |-> warn, error_passive |-> pass,
         can_bus_off |-> new_state = "BUS_OFF"]

\* do_state: the error frame it fills in, the counters it increments and
\* whether it calls can_bus_off.  state is priv->can.state; the case
\* ERROR_ACTIVE falls through into the case ERROR_WARNING.
do_state(cf, state, new_state, bec) ==
    LET inRange(lo) ==
            /\ StateRank(new_state) >= StateRank(lo)
            /\ StateRank(new_state) <= StateRank("BUS_OFF")
        warn == state = "ERROR_ACTIVE" /\ inRange("ERROR_WARNING")
        pass == state \in {"ERROR_ACTIVE", "ERROR_WARNING"}
                /\ inRange("ERROR_PASSIVE")
        cf1 == IF warn
               THEN [cf EXCEPT !.can_id = @ \cup CAN_ERR_CRTL,
                               !.data[2] = IF bec.txerr > bec.rxerr
                                           THEN CAN_ERR_CRTL_TX_WARNING
                                           ELSE CAN_ERR_CRTL_RX_WARNING]
               ELSE cf
        cf2 == IF pass
               THEN [cf1 EXCEPT !.can_id = @ \cup CAN_ERR_CRTL,
                                !.data[2] = IF bec.txerr > bec.rxerr
                                            THEN CAN_ERR_CRTL_TX_PASSIVE
                                            ELSE CAN_ERR_CRTL_RX_PASSIVE]
               ELSE cf1
        cf3 == IF new_state = "ERROR_ACTIVE"
               THEN [cf2 EXCEPT !.can_id = @ \cup CAN_ERR_PROT,
                                !.data[3] = CAN_ERR_PROT_ACTIVE]
               ELSE IF new_state = "BUS_OFF"
               THEN [cf2 EXCEPT !.can_id = @ \cup CAN_ERR_BUSOFF]
               ELSE cf2
    IN  [cf |-> cf3, error_warning |-> warn, error_passive |-> pass,
         can_bus_off |-> new_state = "BUS_OFF"]

\* the status values handed to the monitor: every fault value, every
\* combination of the warning bits, with and without unrelated bits
EsrSamples ==
    {Shl(LowBits(f, 2), FLEXCAN_EST_FLT_CONF_SHIFT) \cup w \cup o :
        f \in 0..3,
        w \in SUBSET (FLEXCAN_ESR_TX_WRN \cup FLEXCAN_ESR_RX_WRN),
        o \in {{}, FLEXCAN_ESR_ERR_INT \cup FLEXCAN_ESR_ACK_ERR
                   \cup FLEXCAN_ESR_IDLE}}

\* the error counters that go with a status value
EcrFor(reg_esr) ==
    IF FLEXCAN_ESR_TX_WRN \subseteq reg_esr
    THEN [txerr |-> 96, rxerr |-> 0]
    ELSE [txerr |-> 0, rxerr |-> 96]

\* the counter values flexcan_get_berr_counter may read: one side ahead, or
\* both equal
EcrSamples(reg_esr) == {EcrFor(reg_esr), [txerr |-> 96, rxerr |-> 96]}

\* flexcan_poll_state(dev, reg_esr), with flexcan_get_berr_counter reading
\* the error counters.  arg records the argument, the derived new_state and
\* priv->can.state on entry.
flexcan_poll_state ==
    /\ env.obs > 0
    /\ \E reg_esr \in EsrSamples : \E bec \in EcrSamples(reg_esr) :
          LET new_state == DeriveState(reg_esr)
              returned(ret) ==
                  [reg_esr |-> reg_esr, new_state |-> new_state,
                   state |-> can_state, ret |-> ret]
          IN  /\ ecr' = bec
              /\ IF StateUnchanged(new_state, can_state)
                 THEN /\ env' = [env EXCEPT !.obs = @ - 1]
                      /\ arg' = returned(0)
                      /\ UNCHANGED <<can_state, stats, sink>>
                 ELSE \E allocOk \in (IF env.allocFails > 0 THEN BOOLEAN
                                      ELSE {TRUE}) :
                      IF ~allocOk
                      THEN /\ env' = [env EXCEPT !.obs = @ - 1,
                                                 !.allocFails = @ - 1]
                           /\ arg' = returned(0)
                           /\ can_state' = StateAfterAllocFail(can_state,
                                                               new_state)
                           /\ UNCHANGED <<stats, sink>>
                      ELSE LET r == do_state(ErrFrame, can_state, new_state, bec)
                           IN  /\ env' = [env EXCEPT !.obs = @ - 1]
                               /\ arg' = returned(1)
                               /\ can_state' = new_state
                               /\ sink' = Append(sink, [cf |-> r.cf,
                                                        ctx |-> "napi"])
                               /\ stats' =
                                    [stats EXCEPT
                                       !.error_warning =
                                          IF r.error_warning THEN @ + 1 ELSE @,
                                       !.error_passive =
                                          IF r.error_passive THEN @ + 1 ELSE @,
                                       !.bus_off =
                                          IF r.can_bus_off THEN @ + 1 ELSE @,
                                       !.rx_packets = @ + 1,
                                       !.rx_bytes = @ + r.cf.can_dlc]
    /\ UNCHANGED <<mcr, ctrl, esr, imask1, iflag1, hwfifo, modeVars,
                   reg_ctrl_default, xceiver, priv_napi, txVars, ctl,
                   skb_queue, skb_queue_len_max, napi, irq_line, irq, poll,
                   arrivals, capHist>>

(***************************************************************************)
(* The bus-error report: flexcan_poll_bus_err and do_bus_err.              *)
(***************************************************************************)
\* linux/can/error.h, as used by do_bus_err
CAN_ERR_ACK == BIT(5)
CAN_ERR_BUSERROR == BIT(7)
CAN_ERR_PROT_BIT == 1
CAN_ERR_PROT_FORM == 2
CAN_ERR_PROT_STUFF == 4
CAN_ERR_PROT_BIT0 == 8
CAN_ERR_PROT_BIT1 == 16
CAN_ERR_PROT_LOC_CRC_SEQ == 8
CAN_ERR_PROT_LOC_ACK == 25

\* b |= c on a byte of the frame
OrByte(b, c) == ToInt(LowBits(b, 8) \cup LowBits(c, 8))

\* a do_bus_err that does not count the acknowledge error as a transmit
\* error
tx_errorsNoAck(reg_esr) ==
    IF reg_esr \cap (FLEXCAN_ESR_BIT1_ERR \cup FLEXCAN_ESR_BIT0_ERR) # {}
    THEN 1 ELSE 0

\* do_bus_err: the local tx_errors after the six tests
tx_errors(reg_esr) ==
    IF reg_esr \cap (FLEXCAN_ESR_BIT1_ERR \cup FLEXCAN_ESR_BIT0_ERR
                     \cup FLEXCAN_ESR_ACK_ERR) # {}
    THEN 1 ELSE 0

\* do_bus_err: the local rx_errors after the six tests
rx_errors(reg_esr) ==
    IF reg_esr \cap (FLEXCAN_ESR_CRC_ERR \cup FLEXCAN_ESR_FRM_ERR
                     \cup FLEXCAN_ESR_STF_ERR) # {}
    THEN 1 ELSE 0

\* do_bus_err: the error frame after the six tests, in source order
do_bus_err(cf, reg_esr) ==
    LET set(b) == b \subseteq reg_esr
        c0 == [cf EXCEPT !.can_id = @ \cup CAN_ERR_PROT \cup CAN_ERR_BUSERROR]
        c1 == IF set(FLEXCAN_ESR_BIT1_ERR)
              THEN [c0 EXCEPT !.data[3] = OrByte(@, CAN_ERR_PROT_BIT1)]
              ELSE c0
        c2 == IF set(FLEXCAN_ESR_BIT0_ERR)
              THEN [c1 EXCEPT !.data[3] = OrByte(@, CAN_ERR_PROT_BIT0)]
              ELSE c1
        c3 == IF set(FLEXCAN_ESR_ACK_ERR)
              THEN [c2 EXCEPT !.can_id = @ \cup CAN_ERR_ACK,
                              !.data[4] = OrByte(@, CAN_ERR_PROT_LOC_ACK)]
              ELSE c2
        c4 == IF set(FLEXCAN_ESR_CRC_ERR)
              THEN [c3 EXCEPT !.data[3] = OrByte(@, CAN_ERR_PROT_BIT),
                              !.data[4] = OrByte(@, CAN_ERR_PROT_LOC_CRC_SEQ)]
              ELSE c3
        c5 == IF set(FLEXCAN_ESR_FRM_ERR)
              THEN [c4 EXCEPT !.data[3] = OrByte(@, CAN_ERR_PROT_FORM)]
              ELSE c4
    IN  IF set(FLEXCAN_ESR_STF_ERR)
        THEN [c5 EXCEPT !.data[3] = OrByte(@, CAN_ERR_PROT_STUFF)]
        ELSE c5

\* the status values handed to flexcan_poll_bus_err: every combination of
\* the six bus-error bits, with the error interrupt bit
BusErrSamples ==
    {UNION S \cup FLEXCAN_ESR_ERR_INT :
        S \in SUBSET {FLEXCAN_ESR_BIT1_ERR, FLEXCAN_ESR_BIT0_ERR,
                      FLEXCAN_ESR_ACK_ERR, FLEXCAN_ESR_CRC_ERR,
                      FLEXCAN_ESR_FRM_ERR, FLEXCAN_ESR_STF_ERR}}

\* flexcan_poll_bus_err(dev, reg_esr).  arg records the argument and
\* whether the call returned 1.
flexcan_poll_bus_err ==
    /\ env.obs > 0
    /\ \E reg_esr \in BusErrSamples :
       \E allocOk \in (IF env.allocFails > 0 THEN BOOLEAN ELSE {TRUE}) :
          IF ~allocOk
          THEN /\ env' = [env EXCEPT !.obs = @ - 1, !.allocFails = @ - 1]
               /\ arg' = [reg_esr |-> reg_esr, ret |-> 0]
               /\ UNCHANGED <<stats, sink>>
          ELSE LET cf == do_bus_err(ErrFrame, reg_esr)
               IN  /\ env' = [env EXCEPT !.obs = @ - 1]
                   /\ arg' = [reg_esr |-> reg_esr, ret |-> 1]
                   /\ sink' = Append(sink, [cf |-> cf, ctx |-> "napi"])
                   /\ stats' =
                        [stats EXCEPT
                           !.bus_error = @ + 1,
                           !.rx_errors = @ + rx_errors(reg_esr),
                           !.tx_errors = @ + tx_errors(reg_esr),
                           !.rx_packets = @ + 1,
                           !.rx_bytes = @ + cf.can_dlc]
    /\ UNCHANGED <<ctlRegs, imask1, iflag1, hwfifo, modeVars,
                   reg_ctrl_default, xceiver, priv_napi, txVars, ctl,
                   can_state, skb_queue, skb_queue_len_max, napi, irq_line,
                   irq, poll, arrivals, capHist>>

(***************************************************************************)
(* Functions exercised on their own.                                       *)
(***************************************************************************)
\* can_rx_offload_init_queue(dev, offload, arg.weight)
can_rx_offload_init_queue ==
    /\ ~arg.done
    /\ skb_queue_len_max' = QueueLenMaxFor(arg.weight)
    /\ skb_queue' = <<>>
    /\ napi' = netif_napi_add(arg.weight)
    /\ arg' = [arg EXCEPT !.done = TRUE]
    /\ UNCHANGED <<ctlRegs, iflag1, hwfifo, cfgVars, txVars, ctl, stats, sink,
                   irq_line, irq, poll, busVars, capHist>>

\* flexcan_set_bittiming(dev)
flexcan_set_bittiming ==
    /\ ~arg.done
    /\ ctrl' = BittimingCtrl(ctrl, bittiming, ctrlmode)
    /\ arg' = [arg EXCEPT !.done = TRUE]
    /\ UNCHANGED <<mcr, esr, ecr, imask1, iflag1, hwfifo, cfgVars, txVars,
                   ctl, skb_queue, skb_queue_len_max, napi, stats, sink,
                   irq_line, irq, poll, busVars, capHist>>

(***************************************************************************)
(* Transmission.                                                           *)
(***************************************************************************)
\* the payload bytes of the frames handed to the driver
TxData(ext) ==
    IF ext THEN <<129, 66, 36, 24, 255, 1, 128, 254>>
    ELSE <<17, 34, 51, 68, 85, 102, 119, 136>>

\* the frames handed to flexcan_start_xmit: a standard and an extended
\* identifier, remote-request set and clear, every length code 0..8, and
\* one frame with an invalid length code
TxFrames ==
    {[can_id |-> (IF ext THEN LowBits(357913941, 29) \cup CAN_EFF_FLAG
                  ELSE LowBits(1365, 11))
                 \cup (IF rtr THEN CAN_RTR_FLAG ELSE {}),
      can_dlc |-> dlc, data |-> TxData(ext)] :
        ext \in BOOLEAN, rtr \in BOOLEAN, dlc \in 0..CAN_MAX_DLC}
    \cup {[can_id |-> LowBits(1365, 11), can_dlc |-> CAN_MAX_DLC + 1,
           data |-> TxData(FALSE)]}

\* flexcan_start_xmit(skb, dev): called by the networking core while the
\* transmit queue is started.  arg lists the frames written to the mailbox.
flexcan_start_xmit ==
    /\ DeviceUp
    /\ txq = "started"
    /\ env.tx > 0
    /\ env' = [env EXCEPT !.tx = @ - 1]
    /\ \E cf \in TxFrames :
          IF cf.can_dlc > CAN_MAX_DLC
          THEN \* can_dropped_invalid_skb
               /\ stats' = [stats EXCEPT !.tx_dropped = @ + 1]
               /\ UNCHANGED <<mb_tx, txq, echo, arg>>
          ELSE /\ txq' = "stopped"
               /\ mb_tx' = XmitMailbox(cf, mb_tx)
               /\ echo' = <<cf>>
               /\ arg' = Append(arg, cf)
               /\ stats' = stats
    /\ UNCHANGED <<ctlRegs, iflag1, hwfifo, cfgVars, ctl, skb_queue,
                   skb_queue_len_max, napi, sink, irq_line, irq, poll,
                   arrivals, capHist>>

\* In loop-back mode the controller sends the pending transmit mailbox and
\* receives it itself: the mailbox words appear at the FIFO output, the
\* mailbox becomes inactive and both interrupt flags are raised.
HwSelfReception ==
    /\ ChipRunning
    /\ FLEXCAN_CTRL_LPB \subseteq ctrl
    /\ mb_tx.can_ctrl \cap FLEXCAN_MB_CNT_CODE(15) = FLEXCAN_MB_CNT_CODE(12)
    /\ Len(hwfifo) < HwFifoDepth
    /\ hwfifo' = Append(hwfifo, mb_tx)
    /\ mb_tx' = [mb_tx EXCEPT
                   !.can_ctrl = (@ \ FLEXCAN_MB_CNT_CODE(15))
                                \cup FLEXCAN_MB_CNT_CODE(8)]
    /\ iflag1' = iflag1 \cup FLEXCAN_IFLAG_RX_FIFO_AVAILABLE
                 \cup FLEXCAN_IFLAG_BUF(FLEXCAN_TX_BUF_ID)
    /\ UNCHANGED <<ctlRegs, cfgVars, txq, echo, testVars, skb_queue,
                   skb_queue_len_max, napi, stats, sink, irq_line, irq, poll,
                   busVars, capHist>>

\* The controller has sent the pending transmit mailbox: the mailbox
\* becomes inactive and its interrupt flag is raised.
HwTxComplete ==
    /\ ChipRunning
    /\ ~(FLEXCAN_CTRL_LPB \subseteq ctrl)
    /\ mb_tx.can_ctrl \cap FLEXCAN_MB_CNT_CODE(15) = FLEXCAN_MB_CNT_CODE(12)
    /\ mb_tx' = [mb_tx EXCEPT
                   !.can_ctrl = (@ \ FLEXCAN_MB_CNT_CODE(15))
                                \cup FLEXCAN_MB_CNT_CODE(8)]
    /\ iflag1' = iflag1 \cup FLEXCAN_IFLAG_BUF(FLEXCAN_TX_BUF_ID)
    /\ UNCHANGED <<ctlRegs, hwfifo, cfgVars, txq, echo, testVars, skb_queue,
                   skb_queue_len_max, napi, stats, sink, irq_line, irq, poll,
                   busVars, capHist>>

(***************************************************************************)
(* Initial states.                                                         *)
(***************************************************************************)
\* the bit timing of the end-to-end scenario, at 500 kbit/s
DefaultBittiming ==
    [brp |-> 4, prop_seg |-> 2, phase_seg1 |-> 3, phase_seg2 |-> 2, sjw |-> 1,
     bitrate |-> 1000000]

\* register_flexcandev has run: FIFO mode is set up, the chip is disabled
\* again, the device is registered and not yet opened
ProbedMcr ==
    FLEXCAN_MCR_MDIS \cup FLEXCAN_MCR_FRZ \cup FLEXCAN_MCR_HALT
    \cup FLEXCAN_MCR_FEN \cup FLEXCAN_MCR_SUPV \cup FLEXCAN_MCR_LPM_ACK

InitProbedCtrl(c) ==
    /\ mcr = ProbedMcr
    /\ ctrl = c
    /\ esr = {}
    /\ ecr = [txerr |-> 0, rxerr |-> 0]
    /\ imask1 = {}
    /\ iflag1 = {}
    /\ mb_tx = ZeroMailbox
    /\ hwfifo = <<>>
    /\ xceiver = FALSE
    /\ can_state = "STOPPED"
    /\ reg_ctrl_default = {}
    /\ skb_queue = <<>>
    /\ skb_queue_len_max = 0
    /\ napi = [weight |-> 0, sched |-> TRUE, listed |-> FALSE]
    /\ txq = "stopped"
    /\ echo = NoSkb
    /\ stats = ZeroStats
    /\ sink = <<>>
    /\ irq_line = FALSE
    /\ irq = IrqIdle
    /\ poll = PollIdle
    /\ ctl = CtlIdle
    /\ arrivals = 0
    /\ capHist = "none"
    /\ priv_napi = [sched |-> FALSE]

InitProbed == InitProbedCtrl(FLEXCAN_CTRL_CLK_SRC)

\* the frame the drain queues for the n-th frame on the bus
QueuedFrame(n) == MailboxFrame(XmitMailbox(BusFrame(n), ZeroMailbox))

\* flexcan_open has returned 0 on a device whose receive queue was set up
\* with polling weight w; since then k frames have arrived, each drained by
\* its own interrupt, and the poll consumer, scheduled by the first of them,
\* has not run yet.
InitOpened(w, k) ==
    /\ mcr = StartMcr({}) \ FLEXCAN_MCR_HALT
    /\ ctrl = StartCtrl(BittimingCtrl(FLEXCAN_CTRL_CLK_SRC, bittiming, ctrlmode),
                        features, ctrlmode)
    /\ esr = {}
    /\ ecr = [txerr |-> 0, rxerr |-> 0]
    /\ imask1 = FLEXCAN_IFLAG_DEFAULT
    /\ iflag1 = {}
    /\ mb_tx = [ZeroMailbox EXCEPT !.can_ctrl = FLEXCAN_MB_CNT_CODE(4)]
    /\ hwfifo = <<>>
    /\ xceiver = TRUE
    /\ can_state = "ERROR_ACTIVE"
    /\ reg_ctrl_default = ctrl
    /\ skb_queue = [i \in 1..k |-> QueuedFrame(i)]
    /\ skb_queue_len_max = QueueLenMaxFor(w)
    /\ napi = IF k = 0 THEN napi_enable(netif_napi_add(w))
              ELSE napi_schedule(napi_enable(netif_napi_add(w)))
    /\ txq = "started"
    /\ echo = NoSkb
    /\ stats = ZeroStats
    /\ sink = <<>>
    /\ irq_line = TRUE
    /\ irq = IF k = 0 THEN IrqIdle
             ELSE [IrqIdle EXCEPT
                     !.reg_iflag1 = FLEXCAN_IFLAG_RX_FIFO_AVAILABLE,
                     !.received = 1, !.handled = TRUE,
                     !.ret = "IRQ_HANDLED"]
    /\ poll = PollIdle
    /\ ctl = CtlIdle
    /\ arrivals = k
    /\ capHist = "none"
    /\ priv_napi = [sched |-> FALSE]

(***************************************************************************)
(* SpecRx: the receive path of an open device.  The interrupt handler, the *)
(* poll consumer and the bus run concurrently.  A behaviour starts with the *)
(* queue empty, or holding skb_queue_len_max frames the consumer has not   *)
(* polled yet.                                                             *)
(***************************************************************************)
InitRx ==
    /\ env = [NoEvents EXCEPT !.frames = MaxFrames,
                              !.allocFails = MaxAllocFail]
    /\ bittiming = DefaultBittiming
    /\ ctrlmode = {}
    /\ features = {}
    /\ arg = <<>>
    /\ \E w \in 1..RxMaxWeight :
          \E k \in {0, QueueLenMaxFor(w)} : InitOpened(w, k)

NextRx ==
    \/ HwRxFrame
    \/ IrqEntry
    \/ IrqOffloadOne
    \/ IrqQueueTail
    \/ IrqSchedule
    \/ IrqTail
    \/ PollLoop
    \/ PollComplete
    \/ PollRecheck

SpecRx == InitRx /\ [][NextRx]_vars

(***************************************************************************)
(* Spec: the life cycle of a registered device.  flexcan_open and          *)
(* flexcan_close are serialized by the networking core; the controller,    *)
(* the faults on the bus and the interrupt handler run concurrently.  No   *)
(* frame is received; the receive path is the subject of SpecRx.           *)
(***************************************************************************)
Init ==
    /\ env = [NoEvents EXCEPT !.opens = MaxOpens, !.faults = MaxFaults,
                              !.shared = MaxShared]
    /\ bittiming = DefaultBittiming
    /\ ctrlmode = {}
    /\ features = {}
    /\ arg = <<>>
    /\ InitProbed

Next ==
    \/ OpenBegin
    \/ ChipOpCall
    \/ ChipOpPoll
    \/ ChipOpFinal
    \/ ChipStartConfig
    \/ ChipStartFinish
    \/ ChipStartUnwind
    \/ OpenReturn
    \/ CloseBegin
    \/ CloseNapiDisable
    \/ ChipStopFinish
    \/ CloseFinish
    \/ HwLpmAck
    \/ HwFrzAck
    \/ HwSoftReset
    \/ HwFault
    \/ IrqEntry
    \/ IrqSharedEntry
    \/ IrqTail

Spec == Init /\ [][Next]_vars

(***************************************************************************)
(* SpecQueueInit: can_rx_offload_init_queue for every polling weight.      *)
(***************************************************************************)
InitQueueInit ==
    /\ env = NoEvents
    /\ bittiming = DefaultBittiming
    /\ ctrlmode = {}
    /\ features = {}
    /\ arg \in {[weight |-> w, done |-> FALSE] : w \in 1..MaxWeight}
    /\ InitProbed

NextQueueInit == can_rx_offload_init_queue

SpecQueueInit == InitQueueInit /\ [][NextQueueInit]_vars

(***************************************************************************)
(* SpecErrState: flexcan_poll_state called on an open device with a        *)
(* sequence of status values.  When IRQ_CAN_RX is defined the function is  *)
(* compiled but nothing calls it; this specification is about the function *)
(* itself.                                                                 *)
(***************************************************************************)
InitErrState ==
    /\ env = [NoEvents EXCEPT !.obs = MaxObs, !.allocFails = MaxAllocFail]
    /\ bittiming = DefaultBittiming
    /\ ctrlmode = {}
    /\ features = {}
    /\ arg = [reg_esr |-> {}, new_state |-> "ERROR_ACTIVE",
              state |-> "ERROR_ACTIVE", ret |-> 0]
    /\ InitOpened(FLEXCAN_NAPI_WEIGHT, 0)

NextErrState == flexcan_poll_state

SpecErrState == InitErrState /\ [][NextErrState]_vars

(***************************************************************************)
(* SpecBusErr: flexcan_poll_bus_err called on an open device with every    *)
(* combination of the bus-error bits.  Like flexcan_poll_state it is       *)
(* compiled but not called when IRQ_CAN_RX is defined; this specification  *)
(* is about the function itself.                                           *)
(***************************************************************************)
InitBusErr ==
    /\ env = [NoEvents EXCEPT !.obs = MaxBusErrCalls,
                              !.allocFails = MaxAllocFail]
    /\ bittiming = DefaultBittiming
    /\ ctrlmode = {"BERR_REPORTING"}
    /\ features = {}
    /\ arg = [reg_esr |-> {}, ret |-> 0]
    /\ InitOpened(FLEXCAN_NAPI_WEIGHT, 0)

NextBusErr == flexcan_poll_bus_err

SpecBusErr == InitBusErr /\ [][NextBusErr]_vars

(***************************************************************************)
(* SpecBittiming: flexcan_set_bittiming for the bit timings of the         *)
(* advertised ranges, over a control register that is clear or holds old   *)
(* contents in every field.                                                *)
(***************************************************************************)
\* the prescaler values tried out of 1..256
BrpSamples == {1, 2, 129, 256}

AdvertisedBittimings ==
    [brp : BrpSamples, prop_seg : 1..8, phase_seg1 : 1..16,
     phase_seg2 : 2..8, sjw : 1..4, bitrate : {DefaultBittiming.bitrate}]

InitBittiming ==
    /\ env = NoEvents
    /\ bittiming \in AdvertisedBittimings
    /\ ctrlmode \in SUBSET {"LOOPBACK", "LISTENONLY", "3_SAMPLES"}
    /\ features = {}
    /\ arg = [done |-> FALSE]
    /\ \E c \in {FLEXCAN_CTRL_CLK_SRC, U32Bits} : InitProbedCtrl(c)

NextBittiming == flexcan_set_bittiming

SpecBittiming == InitBittiming /\ [][NextBittiming]_vars

(***************************************************************************)
(* SpecFrame: frames sent on an open device in loop-back mode, received    *)
(* back through the FIFO, the interrupt-time drain and the poll consumer.  *)
(***************************************************************************)
InitFrame ==
    /\ env = [NoEvents EXCEPT !.tx = MaxTx]
    /\ bittiming = DefaultBittiming
    /\ ctrlmode = {"LOOPBACK"}
    /\ features = {}
    /\ arg = <<>>
    /\ InitOpened(FLEXCAN_NAPI_WEIGHT, 0)

NextFrame ==
    \/ flexcan_start_xmit
    \/ HwSelfReception
    \/ IrqEntry
    \/ IrqOffloadOne
    \/ IrqQueueTail
    \/ IrqSchedule
    \/ IrqTail
    \/ PollLoop
    \/ PollComplete
    \/ PollRecheck

SpecFrame == InitFrame /\ [][NextFrame]_vars

(***************************************************************************)
(* SpecChip: flexcan_open and flexcan_close on a quiet bus, with the       *)
(* controller free to acknowledge a request at any time or never.  The     *)
(* chip-control helpers are straight-line code that busy-waits between     *)
(* polls, and flexcan_chip_stop is straight-line code around them, so each *)
(* of their steps is taken once it is due.                                 *)
(***************************************************************************)
InitChip ==
    /\ env = [NoEvents EXCEPT !.opens = MaxOpens]
    /\ bittiming = DefaultBittiming
    /\ ctrlmode = {}
    /\ features = {}
    /\ arg = <<>>
    /\ InitProbed

NextChip ==
    \/ OpenBegin
    \/ ChipOpCall
    \/ ChipOpPoll
    \/ ChipOpFinal
    \/ ChipStartConfig
    \/ ChipStartFinish
    \/ ChipStartUnwind
    \/ OpenReturn
    \/ CloseBegin
    \/ CloseNapiDisable
    \/ ChipStopFinish
    \/ CloseFinish
    \/ HwLpmAck
    \/ HwFrzAck
    \/ HwSoftReset

SpecChip ==
    /\ InitChip
    /\ [][NextChip]_vars
    /\ WF_vars(ChipOpCall)
    /\ WF_vars(ChipOpPoll)
    /\ WF_vars(ChipOpFinal)
    /\ WF_vars(ChipStopFinish)

(***************************************************************************)
(* SpecClose: flexcan_close on an open device while frames still arrive:   *)
(* the interrupt handler and the poll consumer run concurrently with it.   *)
(***************************************************************************)
InitClose ==
    /\ env = [NoEvents EXCEPT !.frames = MaxCloseFrames]
    /\ bittiming = DefaultBittiming
    /\ ctrlmode = {}
    /\ features = {}
    /\ arg = <<>>
    /\ InitOpened(FLEXCAN_NAPI_WEIGHT, 0)

NextClose ==
    \/ CloseBegin
    \/ CloseNapiDisable
    \/ ChipOpCall
    \/ ChipOpPoll
    \/ ChipOpFinal
    \/ ChipStopFinish
    \/ CloseFinish
    \/ HwLpmAck
    \/ HwFrzAck
    \/ HwRxFrame
    \/ IrqEntry
    \/ IrqOffloadOne
    \/ IrqQueueTail
    \/ IrqSchedule
    \/ IrqTail
    \/ PollLoop
    \/ PollComplete
    \/ PollRecheck

SpecClose == InitClose /\ [][NextClose]_vars

(***************************************************************************)
(* SpecBerr: errors on the bus of an open device, with bus-error reporting *)
(* switched on or off when the device was opened.  The interrupt line is   *)
(* shared, so the handler also runs when the controller did not interrupt. *)
(***************************************************************************)
InitBerr ==
    /\ env = [NoEvents EXCEPT !.faults = MaxFaults, !.shared = MaxShared]
    /\ bittiming = DefaultBittiming
    /\ ctrlmode \in {{}, {"BERR_REPORTING"}}
    /\ features = {}
    /\ arg = <<>>
    /\ InitOpened(FLEXCAN_NAPI_WEIGHT, 0)

NextBerr ==
    \/ HwBusError
    \/ IrqEntry
    \/ IrqSharedEntry
    \/ IrqTail

SpecBerr == InitBerr /\ [][NextBerr]_vars

(***************************************************************************)
(* SpecIrq: flexcan_napi_irq on an open device, one block of the handler   *)
(* at a time, while frames arrive and overflow the FIFO, a transmission    *)
(* completes, a fault on the bus raises status bits and another device     *)
(* interrupts on the shared line.                                          *)
(***************************************************************************)
InitIrq ==
    /\ env = [NoEvents EXCEPT !.frames = HwFifoDepth + 1, !.tx = 1,
                              !.faults = 1, !.shared = MaxShared]
    /\ bittiming = DefaultBittiming
    /\ ctrlmode = {}
    /\ features = {}
    /\ arg = <<>>
    /\ InitOpened(FLEXCAN_NAPI_WEIGHT, 0)

NextIrq ==
    \/ HwRxFrame
    \/ HwRxOverflow
    \/ HwFault
    \/ flexcan_start_xmit
    \/ HwTxComplete
    \/ IrqEntry
    \/ IrqSharedEntry
    \/ IrqOffloadOne
    \/ IrqQueueTail
    \/ IrqSchedule
    \/ IrqOverflow
    \/ IrqTxComplete
    \/ IrqEsrAck

SpecIrq == InitIrq /\ [][NextIrq]_vars

(***************************************************************************)
(* SpecStart: flexcan_open on a bus that delivers frames, followed by the  *)
(* receive path of the opened device.  flexcan_open, the helpers it calls, *)
(* the interrupt handler once entered and the poll consumer once on the    *)
(* poll list are code that runs to its end; when the controller            *)
(* acknowledges, when a frame arrives and when an interrupt is taken is up *)
(* to the environment.                                                     *)
(***************************************************************************)
InitStart ==
    /\ env = [NoEvents EXCEPT !.opens = 1, !.frames = MaxCloseFrames]
    /\ bittiming = DefaultBittiming
    /\ ctrlmode = {}
    /\ features = {}
    /\ arg = <<>>
    /\ InitProbed

NextStart ==
    \/ OpenBegin
    \/ ChipOpCall
    \/ ChipOpPoll
    \/ ChipOpFinal
    \/ ChipStartConfig
    \/ ChipStartFinish
    \/ ChipStartUnwind
    \/ OpenReturn
    \/ HwLpmAck
    \/ HwFrzAck
    \/ HwSoftReset
    \/ HwRxFrame
    \/ IrqEntry
    \/ IrqOffloadOne
    \/ IrqQueueTail
    \/ IrqSchedule
    \/ IrqTail
    \/ PollLoop
    \/ PollComplete
    \/ PollRecheck

SpecStart ==
    /\ InitStart
    /\ [][NextStart]_vars
    /\ WF_vars(ChipOpCall)
    /\ WF_vars(ChipOpPoll)
    /\ WF_vars(ChipOpFinal)
    /\ WF_vars(ChipStartConfig)
    /\ WF_vars(ChipStartFinish)
    /\ WF_vars(ChipStartUnwind)
    /\ WF_vars(OpenReturn)
    /\ WF_vars(IrqOffloadOne)
    /\ WF_vars(IrqQueueTail)
    /\ WF_vars(IrqSchedule)
    /\ WF_vars(IrqTail)
    /\ WF_vars(PollLoop)
    /\ WF_vars(PollComplete)
    /\ WF_vars(PollRecheck)

(***************************************************************************)
(* SpecTwice: one chip-control helper called on its own and, when it       *)
(* returned 0, called again at once, from any setting of the request and   *)
(* acknowledge bits of MCR.                                                *)
(***************************************************************************)
McrSamples ==
    {UNION S : S \in SUBSET {FLEXCAN_MCR_MDIS, FLEXCAN_MCR_FRZ,
                             FLEXCAN_MCR_HALT, FLEXCAN_MCR_LPM_ACK,
                             FLEXCAN_MCR_FRZ_ACK}}

InitTwice ==
    /\ env = NoEvents
    /\ bittiming = DefaultBittiming
    /\ ctrlmode = {}
    /\ features = {}
    /\ arg = <<>>
    /\ mcr \in McrSamples
    /\ ctrl = FLEXCAN_CTRL_CLK_SRC
    /\ esr = {}
    /\ ecr = [txerr |-> 0, rxerr |-> 0]
    /\ imask1 = {}
    /\ iflag1 = {}
    /\ mb_tx = ZeroMailbox
    /\ hwfifo = <<>>
    /\ xceiver = FALSE
    /\ can_state = "STOPPED"
    /\ reg_ctrl_default = {}
    /\ skb_queue = <<>>
    /\ skb_queue_len_max = 0
    /\ napi = [weight |-> 0, sched |-> TRUE, listed |-> FALSE]
    /\ txq = "stopped"
    /\ echo = NoSkb
    /\ stats = ZeroStats
    /\ sink = <<>>
    /\ irq_line = FALSE
    /\ irq = IrqIdle
    /\ poll = PollIdle
    /\ \E op \in {"enable", "disable", "freeze", "unfreeze", "softreset"} :
          \* flexcan_chip_freeze has one caller, flexcan_chip_stop, which
          \* runs on a chip that flexcan_chip_start configured with FRZ set
          /\ op = "freeze" => FLEXCAN_MCR_FRZ \subseteq mcr
          /\ ctl = [CtlIdle EXCEPT !.fn = "twice", !.pc = op, !.op = "call"]
    /\ arrivals = 0
    /\ capHist = "none"
    /\ priv_napi = [sched |-> FALSE]

NextTwice ==
    \/ ChipOpCall
    \/ ChipOpPoll
    \/ ChipOpFinal
    \/ ChipOpAgain
    \/ HwLpmAck
    \/ HwFrzAck
    \/ HwSoftReset

SpecTwice == InitTwice /\ [][NextTwice]_vars

(***************************************************************************)
(* SpecPm: system suspend and resume of a device that is registered but    *)
(* not open, or open and transmitting.                                     *)
(***************************************************************************)
InitPm ==
    /\ env = [NoEvents EXCEPT !.suspends = MaxSuspends, !.tx = MaxTx + 1]
    /\ bittiming = DefaultBittiming
    /\ ctrlmode = {}
    /\ features \in {{}, {"WAKEUP"}}
    /\ arg = <<>>
    /\ \/ InitProbed
       \/ InitOpened(FLEXCAN_NAPI_WEIGHT, 0)

NextPm ==
    \/ flexcan_suspend
    \/ SuspendFinish
    \/ flexcan_resume
    \/ ChipOpCall
    \/ ChipOpPoll
    \/ ChipOpFinal
    \/ HwLpmAck
    \/ flexcan_start_xmit
    \/ HwTxComplete
    \/ IrqEntry
    \/ IrqTail

SpecPm == InitPm /\ [][NextPm]_vars

(***************************************************************************)
(* Claims about the receive queue (SpecRx).                                *)
(***************************************************************************)
\* C1: in every reachable state the Receive Queue holds at most
\* skb_queue_len_max frames.
C1_QueueWithinMax == Len(skb_queue) <= skb_queue_len_max

\* the drain reads a staged frame in this step (one call of
\* can_rx_offload_offload_one that finds FIFO-available set)
DrainReadsFrame ==
    /\ irq.pc = "offload_one"
    /\ irq'.pc # "offload_one"
    /\ FLEXCAN_IFLAG_RX_FIFO_AVAILABLE \subseteq iflag1

\* C2: once the drain has discarded a frame because the queue is full and
\* the poll path has then removed exactly one frame, the drain does not
\* refuse the next arriving frame (it is queued, provided its buffer can be
\* allocated) and, once that frame is queued, discards the one after it.
C2_OneMoreAfterOnePolled ==
    [][/\ (DrainReadsFrame /\ capHist = "polled1")
            => /\ ~irq'.drop
               /\ (env'.allocFails = env.allocFails
                     => irq'.skb = <<MailboxFrame(Head(hwfifo))>>
                        /\ irq'.pc = "queue_tail")
       /\ (irq.pc = "queue_tail" /\ irq'.pc # "queue_tail"
           /\ capHist = "polled1")
            => /\ skb_queue' = Append(skb_queue, irq.skb[1])
               /\ capHist' = "accepted1"
       /\ (DrainReadsFrame /\ capHist = "accepted1")
            => /\ irq'.drop
               /\ irq'.skb = NoSkb
               /\ skb_queue' = skb_queue
               /\ stats'.rx_dropped = stats.rx_dropped + 1]_vars

\* C2 witness: the queue was full and one frame was discarded, exactly one
\* frame was polled, one more frame was queued and the next was discarded
C2_Witness ==
    /\ capHist = "dropped"
    /\ stats.rx_dropped = 2
    /\ env.allocFails = MaxAllocFail
    /\ Len(sink) = 1
    /\ Len(skb_queue) = skb_queue_len_max + 1

(***************************************************************************)
(* Claim about the queue depth (SpecQueueInit).                            *)
(***************************************************************************)
\* the smallest power of two that is >= w
RoundUpPow2(w) ==
    LET pows == {2 ^ i : i \in 0..10}
    IN  CHOOSE p \in pows : p >= w /\ \A q \in pows : q >= w => p <= q

\* C3: for every weight w >= 1, can_rx_offload_init_queue configures the
\* maximum depth 4 * (smallest power of two >= w).
C3_DepthFourTimesPow2 ==
    arg.done => skb_queue_len_max = 4 * RoundUpPow2(arg.weight)

(***************************************************************************)
(* Claims about the error-state monitor (SpecErrState).                    *)
(***************************************************************************)
\* the documented table: the state for fault value flt (0 active, 1 passive,
\* 2 and 3 bus-off) and the two warning bits
StateTable(flt, txwrn, rxwrn) ==
    CASE flt = 0 /\ ~(txwrn \/ rxwrn) -> "ERROR_ACTIVE"
      [] flt = 0 /\ (txwrn \/ rxwrn) -> "ERROR_WARNING"
      [] flt = 1 -> "ERROR_PASSIVE"
      [] flt \in {2, 3} -> "BUS_OFF"

PollStateCalled == env.obs < MaxObs

\* C4: the state flexcan_poll_state derives is the documented function of
\* the fault-confinement field and the TX/RX warning bits of its argument,
\* whatever the other status bits and the recorded state are.
C4_DerivedStateIsTable ==
    PollStateCalled =>
        arg.new_state =
            StateTable(Field(arg.reg_esr, FLEXCAN_EST_FLT_CONF_SHIFT, 2),
                       FLEXCAN_ESR_TX_WRN \subseteq arg.reg_esr,
                       FLEXCAN_ESR_RX_WRN \subseteq arg.reg_esr)

\* C4 witness: a call that derived ERROR_WARNING from the RX warning bit
\* alone, with unrelated status bits set and another state recorded
C4_Witness ==
    /\ PollStateCalled
    /\ arg.new_state = "ERROR_WARNING"
    /\ FLEXCAN_ESR_RX_WRN \subseteq arg.reg_esr
    /\ ~(FLEXCAN_ESR_TX_WRN \subseteq arg.reg_esr)
    /\ FLEXCAN_ESR_ERR_INT \subseteq arg.reg_esr
    /\ arg.state = "ERROR_PASSIVE"

\* C5: a call that changes the recorded state from another state to BUS_OFF
\* calls can_bus_off once and delivers one diagnostic frame, marked bus-off;
\* a call that observes bus-off while BUS_OFF is recorded does neither.
C5_BusOffSignalledOnce ==
    [][env'.obs < env.obs =>
          /\ (can_state # "BUS_OFF" /\ can_state' = "BUS_OFF")
                => /\ stats'.bus_off = stats.bus_off + 1
                   /\ Len(sink') = Len(sink) + 1
                   /\ SubSeq(sink', 1, Len(sink)) = sink
                   /\ CAN_ERR_BUSOFF \subseteq sink'[Len(sink')].cf.can_id
          /\ (can_state = "BUS_OFF" /\ arg'.new_state = "BUS_OFF")
                => /\ stats'.bus_off = stats.bus_off
                   /\ sink' = sink
                   /\ can_state' = "BUS_OFF"]_vars

\* C5 witness: bus-off was entered from another state and then observed
\* again; one link-down signal and one bus-off frame exist
C5_Witness ==
    /\ can_state = "BUS_OFF"
    /\ arg.state = "BUS_OFF"
    /\ arg.new_state = "BUS_OFF"
    /\ stats.bus_off = 1
    /\ stats.error_passive = 1
    /\ Len(sink) = 2
    /\ CAN_ERR_BUSOFF \subseteq sink[2].cf.can_id

\* a call of flexcan_poll_state has returned in this step
PollStateStep == env'.obs < env.obs

\* C22: a call of flexcan_poll_state that derives the state already
\* recorded delivers no frame, signals no link-down and leaves the recorded
\* state, the warning and passive counters and the receive statistics as
\* they were.
C22_NoSelfTransition ==
    [][(PollStateStep /\ arg'.new_state = can_state)
          => (/\ sink' = sink
              /\ can_state' = can_state
              /\ stats' = stats
              /\ skb_queue' = skb_queue)]_vars

\* C22 witness: ERROR_WARNING was entered and then observed again; the one
\* frame and the one warning count of the entry are all there is
C22_Witness ==
    /\ can_state = "ERROR_WARNING"
    /\ arg.state = "ERROR_WARNING"
    /\ arg.new_state = "ERROR_WARNING"
    /\ Len(sink) = 1
    /\ stats.error_warning = 1
    /\ stats.rx_packets = 1

\* code c is set in the byte b of an error frame
HasCode(b, c) == (b \div c) % 2 = 1

\* the controller code of the diagnostic frame: warning or passive, for
\* the side whose error counter is larger, receive on a tie
BlameCode(bec, tx, rx) == IF bec.txerr > bec.rxerr THEN tx ELSE rx

\* the diagnostic frame documented for a transition from old to new, when a
\* later marking of the same byte replaces an earlier one
TransitionFrame(old, new, bec) ==
    LET crtl == \/ (old \in {"ERROR_ACTIVE", "ERROR_WARNING"}
                    /\ new \in {"ERROR_PASSIVE", "BUS_OFF"})
                \/ (old = "ERROR_ACTIVE" /\ new = "ERROR_WARNING")
        code == IF new = "ERROR_WARNING"
                THEN BlameCode(bec, CAN_ERR_CRTL_TX_WARNING,
                               CAN_ERR_CRTL_RX_WARNING)
                ELSE BlameCode(bec, CAN_ERR_CRTL_TX_PASSIVE,
                               CAN_ERR_CRTL_RX_PASSIVE)
    IN  [can_id |-> CAN_ERR_FLAG
                    \cup (IF crtl THEN CAN_ERR_CRTL ELSE {})
                    \cup (IF new = "ERROR_ACTIVE" THEN CAN_ERR_PROT ELSE {})
                    \cup (IF new = "BUS_OFF" THEN CAN_ERR_BUSOFF ELSE {}),
         can_dlc |-> CAN_ERR_DLC,
         data |-> [ZeroData EXCEPT
                     ![2] = IF crtl THEN code ELSE 0,
                     ![3] = IF new = "ERROR_ACTIVE"
                            THEN CAN_ERR_PROT_ACTIVE ELSE 0]]

\* one frame was delivered to the sink in this step, from the polling
\* context, counted in the receive statistics, none queued
OneFrameDelivered ==
    /\ Len(sink') = Len(sink) + 1
    /\ SubSeq(sink', 1, Len(sink)) = sink
    /\ sink'[Len(sink')].ctx = "napi"
    /\ stats'.rx_packets = stats.rx_packets + 1
    /\ stats'.rx_bytes = stats.rx_bytes + sink'[Len(sink')].cf.can_dlc
    /\ skb_queue' = skb_queue

\* the markings the statement lists one by one, for the frame cf of a
\* transition from old to new
MarksEveryRule(cf, old, new, bec) ==
    /\ (old = "ERROR_ACTIVE")
         => (/\ CAN_ERR_CRTL \subseteq cf.can_id
             /\ HasCode(cf.data[2], BlameCode(bec, CAN_ERR_CRTL_TX_WARNING,
                                             CAN_ERR_CRTL_RX_WARNING)))
    /\ (old \in {"ERROR_ACTIVE", "ERROR_WARNING"}
         /\ new \in {"ERROR_PASSIVE", "BUS_OFF"})
         => (/\ CAN_ERR_CRTL \subseteq cf.can_id
             /\ HasCode(cf.data[2], BlameCode(bec, CAN_ERR_CRTL_TX_PASSIVE,
                                             CAN_ERR_CRTL_RX_PASSIVE)))
    /\ (new = "ERROR_ACTIVE")
         => (/\ CAN_ERR_PROT \subseteq cf.can_id
             /\ cf.data[3] = CAN_ERR_PROT_ACTIVE)
    /\ (new = "BUS_OFF") => (CAN_ERR_BUSOFF \subseteq cf.can_id)

\* C23 as stated: every change of the recorded state delivers one frame,
\* and the frame of a transition out of ERROR_ACTIVE carries the warning
\* code, that of a transition from ERROR_ACTIVE or ERROR_WARNING to
\* ERROR_PASSIVE or BUS_OFF the passive code, each for the side with the
\* larger counter; entering ERROR_ACTIVE is marked as recovery, entering
\* BUS_OFF as bus-off.
C23_FrameMarksEveryRule ==
    [][(PollStateStep /\ can_state' # can_state)
          => (/\ OneFrameDelivered
              /\ MarksEveryRule(sink'[Len(sink')].cf, can_state, can_state',
                                ecr'))]_vars

\* C23 amended: every change of the recorded state delivers exactly one
\* frame, counted in the receive statistics, and the frame is the one
\* documented for (old state, new state, tx counter, rx counter), where a
\* transition to ERROR_PASSIVE or BUS_OFF carries the passive code only.
C23_FrameIsTransitionFrame ==
    [][(PollStateStep /\ can_state' # can_state)
          => (/\ OneFrameDelivered
              /\ sink'[Len(sink')].cf
                    = TransitionFrame(can_state, can_state', ecr'))]_vars

\* C23 witness: ERROR_ACTIVE was left for ERROR_PASSIVE with the transmit
\* counter ahead, and the frame delivered carries the transmit passive code
C23_Witness ==
    /\ PollStateCalled
    /\ arg.state = "ERROR_ACTIVE"
    /\ can_state = "ERROR_PASSIVE"
    /\ ecr.txerr > ecr.rxerr
    /\ Len(sink) = 1
    /\ sink[1].cf.data[2] = CAN_ERR_CRTL_TX_PASSIVE
    /\ stats.error_warning = 1
    /\ stats.error_passive = 1

\* a call of flexcan_poll_state in which alloc_can_err_skb fails
PollStateAllocFailed == PollStateStep /\ env'.allocFails < env.allocFails

\* the last call returned 0 on a genuine transition: its allocation failed
LastCallFailed == arg.ret = 0 /\ arg.new_state # arg.state

AllocFailStep ==
    /\ PollStateAllocFailed =>
          (/\ arg'.ret = 0
           /\ arg'.new_state # arg'.state
           /\ can_state' = can_state
           /\ stats' = stats
           /\ sink' = sink
           /\ ~StateUnchanged(DeriveState(arg'.reg_esr), can_state'))
    /\ (PollStateStep /\ LastCallFailed /\ arg'.reg_esr = arg.reg_esr
         /\ ~PollStateAllocFailed) =>
          (/\ arg'.ret = 1
           /\ arg'.state = arg.state
           /\ can_state' = arg.new_state
           /\ Len(sink') = Len(sink) + 1)

\* C32: when alloc_can_err_skb fails on a genuine transition,
\* flexcan_poll_state returns 0 and leaves priv->can.state, the warning,
\* passive and bus-off counters (can_bus_off, the only change of the link
\* state, counts bus_off) and the receive statistics as they were and
\* delivers nothing, so that the next call with the same status detects the
\* same transition and reports it.
C32_AllocFailureLeavesStateForRetry == [][AllocFailStep]_vars

\* the first call failed to allocate, the second reported the transition
C32_Witness ==
    /\ env.obs = MaxObs - 2
    /\ env.allocFails = MaxAllocFail - 1
    /\ arg.ret = 1
    /\ arg.state = "ERROR_ACTIVE"
    /\ can_state = "BUS_OFF"
    /\ Len(sink) = 1
    /\ stats.rx_packets = 1
    /\ stats.bus_off = 1

\* a call of flexcan_poll_state that takes the recorded state from
\* ERROR_ACTIVE straight to ERROR_PASSIVE or BUS_OFF
DirectJump ==
    /\ PollStateStep
    /\ can_state = "ERROR_ACTIVE"
    /\ can_state' \in {"ERROR_PASSIVE", "BUS_OFF"}

DirectJumpStep ==
    DirectJump =>
        (/\ stats'.error_warning = stats.error_warning + 1
         /\ stats'.error_passive = stats.error_passive + 1
         /\ Len(sink') = Len(sink) + 1
         /\ CAN_ERR_CRTL \subseteq sink'[Len(sink')].cf.can_id
         /\ sink'[Len(sink')].cf.data[2] =
               (IF ecr'.txerr > ecr'.rxerr THEN CAN_ERR_CRTL_TX_PASSIVE
                ELSE CAN_ERR_CRTL_RX_PASSIVE))

\* C33: on a transition from ERROR_ACTIVE straight to ERROR_PASSIVE or
\* BUS_OFF both error_warning and error_passive are incremented by one, and
\* the one diagnostic frame carries in data[1] the passive code alone: the
\* warning code written first is overwritten, not combined.
C33_DirectJumpCountsBothKeepsPassive == [][DirectJumpStep]_vars

\* ERROR_ACTIVE -> BUS_OFF with the receive side not behind: both counters
\* are 1 and data[1] is the receive-passive code alone
C33_Witness ==
    /\ PollStateCalled
    /\ arg.state = "ERROR_ACTIVE"
    /\ can_state = "BUS_OFF"
    /\ ~(ecr.txerr > ecr.rxerr)
    /\ Len(sink) = 1
    /\ sink[1].cf.data[2] = CAN_ERR_CRTL_RX_PASSIVE
    /\ stats.error_warning = 1
    /\ stats.error_passive = 1
    /\ env.allocFails = MaxAllocFail

\* C15: when the drain finds the queue holding skb_queue_len_max frames or
\* more while a frame is staged in the FIFO, that call acknowledges the FIFO
\* (the staged frame is released), keeps no frame, increments rx_dropped by
\* exactly one and leaves the queue as it is.
C15_FullQueueDiscards ==
    [][(DrainReadsFrame /\ Len(skb_queue) >= skb_queue_len_max)
          => /\ hwfifo' = Tail(hwfifo)
             /\ iflag1' = IflagAfterAck(iflag1, hwfifo)
             /\ irq'.skb = NoSkb
             /\ stats'.rx_dropped = stats.rx_dropped + 1
             /\ skb_queue' = skb_queue]_vars

\* C13: every frame is handed to the stack by a step of the poll consumer:
\* a step that delivers leaves the interrupt handler where it was and is a
\* pass of the consumer's loop, no step of the interrupt handler delivers,
\* and every frame delivered so far was delivered by the consumer.
C13_DeliveryOnlyFromPoll ==
    /\ [][/\ ((sink' # sink) => (irq' = irq /\ poll'.pc = "loop"))
           /\ ((irq' # irq) => (sink' = sink))]_vars
    /\ [](\A i \in 1..Len(sink) : sink[i].ctx = "napi")

\* C13 witness: the interrupt handler has queued a frame and not yet
\* scheduled the consumer, which has delivered earlier frames
C13_Witness ==
    /\ irq.pc = "schedule"
    /\ irq.received > 0
    /\ Len(sink) >= 2
    /\ skb_queue # <<>>

\* the frames the drain decodes from the frames on the bus, by arrival number
KnownFrames ==
    [n \in 1..(QueueLenMaxFor(RxMaxWeight) + MaxFrames) |-> QueuedFrame(n)]

\* the standard identifier of cf as a number
SffNumber(cf) ==
    (IF 0 \in cf.can_id THEN 1 ELSE 0) + (IF 1 \in cf.can_id THEN 2 ELSE 0)
    + (IF 2 \in cf.can_id THEN 4 ELSE 0) + (IF 3 \in cf.can_id THEN 8 ELSE 0)
    + (IF 4 \in cf.can_id THEN 16 ELSE 0) + (IF 5 \in cf.can_id THEN 32 ELSE 0)
    + (IF 6 \in cf.can_id THEN 64 ELSE 0) + (IF 7 \in cf.can_id THEN 128 ELSE 0)
    + (IF 8 \in cf.can_id THEN 256 ELSE 0) + (IF 9 \in cf.can_id THEN 512 ELSE 0)
    + (IF 10 \in cf.can_id THEN 1024 ELSE 0)

\* the arrival number of the bus frame that decodes to cf, 0 if there is none
FrameNumber(cf) ==
    LET n == SffNumber(cf)
    IN  IF n \in DOMAIN KnownFrames
        THEN IF KnownFrames[n] = cf THEN n ELSE 0
        ELSE 0

\* the arrival number of the last frame delivered, 0 if there is none
LastDelivered == IF sink = <<>> THEN 0 ELSE FrameNumber(sink[Len(sink)].cf)

\* C14: the frames delivered, followed by the frames still queued, are in
\* the order in which the drain read them from the FIFO (each is the decoded
\* form of a bus frame that arrived later than the one before it, hence no
\* frame twice), and no frame the drain read has disappeared without being
\* counted as dropped.
C14_FirstDrainedFirstDelivered ==
    /\ \A i \in 1..Len(sink) :
          FrameNumber(sink[i].cf)
            > (IF i = 1 THEN 0 ELSE FrameNumber(sink[i - 1].cf))
    /\ \A i \in 1..Len(skb_queue) :
          FrameNumber(skb_queue[i])
            > (IF i = 1 THEN LastDelivered ELSE FrameNumber(skb_queue[i - 1]))
    /\ Len(sink) + Len(skb_queue) + Len(irq.skb) + stats.rx_dropped
          + Len(hwfifo) = arrivals

\* C14 witness: the consumer is in its loop and has delivered two frames
\* while the producer holds a frame it is about to queue behind others
C14_Witness ==
    /\ poll.pc = "loop"
    /\ Len(sink) >= 2
    /\ irq.pc = "queue_tail"
    /\ skb_queue # <<>>

(***************************************************************************)
(* Claims about a running device (Spec).                                   *)
(***************************************************************************)
\* the interrupt handler has served every interrupt the controller raised
Quiescent == DeviceUp /\ irq.pc = "idle" /\ ~IrqPending

\* C6: on a running device, once the fault field has changed to passive and
\* the driver has served the interrupt, the recorded state is ERROR_PASSIVE
\* and a diagnostic frame was delivered; once it has changed to bus-off, the
\* recorded state is BUS_OFF and a link-down signal was given.
C6_StateFollowsFault ==
    /\ (Quiescent
        /\ esr \cap FLEXCAN_ESR_FLT_CONF_MASK = FLEXCAN_ESR_FLT_CONF_PASSIVE)
          => can_state = "ERROR_PASSIVE" /\ sink # <<>>
    /\ (Quiescent /\ esr \cap FLEXCAN_ESR_FLT_CONF_MASK = EsrFltConfBusOff)
          => can_state = "BUS_OFF" /\ stats.bus_off > 0

\* flexcan_chip_freeze returns in this step
FreezeReturns ==
    /\ ctl.op = "final"
    /\ ChipOp(ctl.pc) = "freeze"
    /\ ctl'.op # "final"

\* C9: when freeze-acknowledge has not been set by the final read of
\* flexcan_chip_freeze, the function returns the timeout error and the halt
\* bit of MCR is still set.
C9_FreezeTimeoutKeepsHalt ==
    [][(FreezeReturns /\ ~(FLEXCAN_MCR_FRZ_ACK \subseteq mcr))
          => /\ ctl'.ret = <<"freeze", "ETIMEDOUT">>
             /\ FLEXCAN_MCR_HALT \subseteq mcr']_vars

\* C9 witness: flexcan_chip_freeze has returned the timeout error, the
\* controller has still not acknowledged, the halt bit is set
C9_Witness ==
    /\ ctl.ret = <<"freeze", "ETIMEDOUT">>
    /\ ctl.pc = "stop_disable"
    /\ ctl.op = "call"
    /\ ~(FLEXCAN_MCR_FRZ_ACK \subseteq mcr)
    /\ FLEXCAN_MCR_HALT \subseteq mcr

\* C10: when flexcan_chip_start returns an error, the module-disable bit is
\* set, the transceiver is off, the state is not ERROR_ACTIVE and the FIFO
\* and transmit interrupts are masked.
C10_FailedStartUnwound ==
    (ctl.pc = "return" /\ ctl.err # "OK")
        => /\ FLEXCAN_MCR_MDIS \subseteq mcr
           /\ ~xceiver
           /\ can_state # "ERROR_ACTIVE"
           /\ imask1 \cap FLEXCAN_IFLAG_DEFAULT = {}

\* C17: when flexcan_napi_irq has returned, it has returned IRQ_HANDLED if
\* and only if one of FIFO-available, FIFO-overflow, transmit-complete or an
\* interrupt bit of the status register was set in the registers it
\* captured.
C17_ReturnsWhetherHandled ==
    (irq.pc = "idle" /\ irq.ret # "none")
        => ((irq.ret = "IRQ_HANDLED")
              <=> \/ irq.reg_iflag1 \cap FLEXCAN_IFLAG_DEFAULT # {}
                  \/ irq.reg_esr \cap FLEXCAN_ESR_ALL_INT # {})

(***************************************************************************)
(* Claim about the bit timing (SpecBittiming).                             *)
(***************************************************************************)
\* the five bit-fields of CTRL decode to the bit timing minus one
BittimingDecodes ==
    /\ Field(ctrl, 24, 8) = bittiming.brp - 1
    /\ Field(ctrl, 0, 3) = bittiming.prop_seg - 1
    /\ Field(ctrl, 19, 3) = bittiming.phase_seg1 - 1
    /\ Field(ctrl, 16, 3) = bittiming.phase_seg2 - 1
    /\ Field(ctrl, 22, 2) = bittiming.sjw - 1

\* C7 as stated: for every bit timing of the advertised ranges, phase
\* segment 1 up to 16 included, the value flexcan_set_bittiming writes
\* decodes to the bit timing.
C7_RoundTripAdvertised == arg.done => BittimingDecodes

\* C7 amended: the value flexcan_set_bittiming writes decodes to the bit
\* timing when phase segment 1 is at most 8, the range of the 3-bit PSEG1
\* field.
C7_RoundTripPseg1Field ==
    (arg.done /\ bittiming.phase_seg1 <= 8) => BittimingDecodes

\* C7 witness: the largest value of every field was written over a control
\* register whose loop-back bit ends up set
C7_Witness ==
    /\ arg.done
    /\ bittiming.brp = 256
    /\ bittiming.prop_seg = 8
    /\ bittiming.phase_seg1 = 8
    /\ bittiming.phase_seg2 = 8
    /\ bittiming.sjw = 4
    /\ FLEXCAN_CTRL_LPB \subseteq ctrl
    /\ BittimingDecodes

\* the bits of CTRL flexcan_set_bittiming may change: the five timing fields
\* and the three mode bits
BittimingBits ==
    FLEXCAN_CTRL_PRESDIV(255) \cup FLEXCAN_CTRL_RJW(3)
    \cup FLEXCAN_CTRL_PSEG1(7) \cup FLEXCAN_CTRL_PSEG2(7)
    \cup FLEXCAN_CTRL_PROPSEG(7) \cup FLEXCAN_CTRL_LPB
    \cup FLEXCAN_CTRL_SMP \cup FLEXCAN_CTRL_LOM

SetBittimingStep ==
    (~arg.done /\ arg'.done) =>
        (/\ ctrl' \ BittimingBits = ctrl \ BittimingBits
         /\ (FLEXCAN_CTRL_LPB \subseteq ctrl') = ("LOOPBACK" \in ctrlmode)
         /\ (FLEXCAN_CTRL_SMP \subseteq ctrl') = ("3_SAMPLES" \in ctrlmode)
         /\ (FLEXCAN_CTRL_LOM \subseteq ctrl') = ("LISTENONLY" \in ctrlmode))

\* C29: flexcan_set_bittiming writes CTRL once; every bit outside the five
\* timing fields and LPB, SMP and LOM keeps the value that was read, and
\* afterwards LPB, SMP and LOM are set exactly when LOOPBACK, 3_SAMPLES and
\* LISTENONLY are set in ctrlmode, whatever they were before.
C29_BittimingKeepsOtherBits == [][SetBittimingStep]_vars

\* the register was all ones, only listen-only is requested, and the call
\* has left LOM and the bits outside the fields set and cleared LPB and SMP
C29_Witness ==
    /\ arg.done
    /\ ctrlmode = {"LISTENONLY"}
    /\ FLEXCAN_CTRL_BOFF_MSK \cup FLEXCAN_CTRL_LOM \subseteq ctrl
    /\ ctrl \cap (FLEXCAN_CTRL_LPB \cup FLEXCAN_CTRL_SMP) = {}

(***************************************************************************)
(* Claim about the frame encoding (SpecFrame).                             *)
(***************************************************************************)
\* the received frame got has the identifier, flags, length and the first
\* length payload bytes of the frame sent
RoundTrip(sent, got) ==
    /\ got.can_id = sent.can_id
    /\ got.can_dlc = sent.can_dlc
    /\ \A i \in 1..sent.can_dlc : got.data[i] = sent.data[i]

\* C8: every frame delivered to the stack is the frame that was written to
\* the transmit mailbox, in identifier, format and remote flags, length and
\* the first length payload bytes.
C8_FrameRoundTrip ==
    /\ Len(sink) <= Len(arg)
    /\ \A i \in 1..Len(sink) : RoundTrip(arg[i], sink[i].cf)

\* C8 witness: an extended frame with 8 payload bytes and remote-request
\* clear was sent and delivered back
C8_Witness ==
    /\ Len(sink) = 1
    /\ CAN_EFF_FLAG \subseteq arg[1].can_id
    /\ ~(CAN_RTR_FLAG \subseteq arg[1].can_id)
    /\ arg[1].can_dlc = 8
    /\ sink[1].cf.data = arg[1].data

(***************************************************************************)
(* Claims about the chip-control helpers and flexcan_chip_stop (SpecChip). *)
(***************************************************************************)
\* what flexcan_chip_stop leaves behind
Stopped ==
    /\ imask1 = {}
    /\ ctrl = reg_ctrl_default \ FLEXCAN_CTRL_ERR_ALL
    /\ ctrl \cap FLEXCAN_CTRL_ERR_ALL = {}
    /\ ~xceiver
    /\ can_state = "STOPPED"

\* C11: once flexcan_chip_stop is entered it reaches its end, whether or
\* not the freeze and the disable time out, with all interrupts masked, the
\* control register rewritten without any error-reporting enable bit, the
\* transceiver off and the recorded state STOPPED.
C11_StopIsBestEffort ==
    (ctl.pc = "stop_freeze") ~> (ctl.pc = "free_irq" /\ Stopped)

\* C11 witness: flexcan_chip_stop has finished although the controller
\* acknowledged neither the freeze nor the disable request
C11_Witness ==
    /\ ctl.pc = "free_irq"
    /\ ctl.ret = <<"disable", "ETIMEDOUT">>
    /\ ~(FLEXCAN_MCR_FRZ_ACK \subseteq mcr)
    /\ ~(FLEXCAN_MCR_LPM_ACK \subseteq mcr)
    /\ Stopped

\* the status bit of MCR has the value the helper waits for
TargetReached(op, reg) ==
    CASE op = "enable" -> reg \cap FLEXCAN_MCR_LPM_ACK = {}
      [] op = "disable" -> reg \cap FLEXCAN_MCR_LPM_ACK # {}
      [] op = "freeze" -> reg \cap FLEXCAN_MCR_FRZ_ACK # {}
      [] op = "unfreeze" -> reg \cap FLEXCAN_MCR_FRZ_ACK = {}
      [] op = "softreset" -> reg \cap FLEXCAN_MCR_SOFTRST = {}

\* C20: every call of a chip-control helper polls a bounded number of times
\* (each poll decreases the counter, which is never negative) and returns; it
\* returns the timeout error exactly when the polled bit has not reached its
\* target at the final read, and success otherwise.
C20_HelpersTerminateAndReport ==
    /\ [][/\ ((ctl.op = "poll" /\ ctl'.op = "poll" /\ ctl' # ctl)
                => (ctl'.timeout < ctl.timeout /\ ctl'.timeout >= 0))
           /\ ((ctl.op = "final" /\ ctl'.op # "final")
                => ctl'.ret = <<ChipOp(ctl.pc),
                                IF TargetReached(ChipOp(ctl.pc), mcr)
                                THEN "OK" ELSE "ETIMEDOUT">>)]_vars
    /\ (ctl.op = "call") ~> (ctl.op = "final")
    /\ (ctl.op = "final") ~> (ctl.ret # <<>> /\ ctl.timeout = 0)

\* C20 witness: the soft reset timed out with SOFTRST still set, and the
\* disable that unwinds it returned success with the acknowledge set
C20_Witness ==
    /\ ctl.pc = "return"
    /\ ctl.err = "ETIMEDOUT"
    /\ ctl.ret = <<"disable", "OK">>
    /\ FLEXCAN_MCR_SOFTRST \subseteq mcr
    /\ FLEXCAN_MCR_LPM_ACK \subseteq mcr

(***************************************************************************)
(* Claim about flexcan_close (SpecClose).                                  *)
(***************************************************************************)
\* napi_disable has been applied to the consumer of the receive queue:
\* NAPI_STATE_SCHED is held, the consumer is off the poll list and not
\* running
ConsumerDisabled == napi.sched /\ ~napi.listed /\ poll.pc = "idle"

\* C12: in flexcan_close, once the step that disables the polling consumer
\* is over, the consumer of the receive queue is disabled for the rest of
\* the close (so no interrupt can queue for it or schedule it), and when
\* the close has returned it is still disabled and the queue is empty.
C12_CloseDisablesConsumer ==
    /\ (ctl.fn = "close" /\ ctl.pc # "napi_disable") => ConsumerDisabled
    /\ (ctl.fn = "none" /\ ~irq_line)
          => (ConsumerDisabled /\ skb_queue = <<>>)

\* flexcan_close has returned: free_irq has released the interrupt line
Closed == ctl.fn = "none" /\ ~irq_line

\* one step of the system seen from the sink and the queue after the close
AfterCloseStep ==
    /\ Closed => (sink' = sink)
    /\ Closed' => (skb_queue' = <<>>)

\* C34: once flexcan_close has returned, can_rx_offload_napi_poll delivers
\* no further frame to the sink and the receive queue holds no frame: what
\* was queued when the device was closed is not delivered afterwards.
C34_NothingDeliveredAfterClose == [][AfterCloseStep]_vars

(***************************************************************************)
(* Claim about bus-error reporting (SpecBerr).                             *)
(***************************************************************************)
\* the diagnostic frames among the frames delivered or queued for delivery
ErrorFramesProduced ==
    {i \in 1..Len(sink) : sink[i].cf.can_id \cap CAN_ERR_FLAG # {}}
    \cup {Len(sink) + i : i \in {j \in 1..Len(skb_queue) :
                                   skb_queue[j].can_id \cap CAN_ERR_FLAG # {}}}

\* the interrupt cycle is over: the handler has returned and no work is
\* left for the poll consumer
CycleOver ==
    /\ irq.pc = "idle"
    /\ irq.ret # "none"
    /\ ~napi.listed
    /\ poll.pc = "idle"

\* C19: when an interrupt cycle that captured a bus-error bit in the status
\* register is over, a bus-error frame has been produced if bus-error
\* reporting is on, and none if it is off.
C19_BusErrorGatedOnFlag ==
    (CycleOver /\ irq.reg_esr \cap FLEXCAN_ESR_ERR_BUS # {})
        => IF "BERR_REPORTING" \in ctrlmode
           THEN ErrorFramesProduced # {}
           ELSE ErrorFramesProduced = {}

(***************************************************************************)
(* Claims about suspend and resume (SpecPm).                               *)
(***************************************************************************)
\* flexcan_start_xmit has written the mailbox and the transmit-complete
\* interrupt of that frame has not been handled yet
TxInFlight == echo # NoSkb

\* C16: from the write of the transmit mailbox until the transmit-complete
\* interrupt of that frame is handled the transmit queue is stopped, so no
\* second frame can be written over the pending one.
C16_QueueStoppedWhileTxInFlight == TxInFlight => txq = "stopped"

\* chip_start has succeeded and chip_stop has not run since: the FIFO and
\* transmit interrupts, unmasked last by the one and masked by the other
ChipStarted == imask1 = FLEXCAN_IFLAG_DEFAULT

\* C18: the recorded state names a running state only while the chip is
\* started; in particular a stopped device is not ERROR_ACTIVE after
\* suspend and resume.
C18_RunningStateOnlyWhileStarted ==
    can_state \in {"ERROR_ACTIVE", "ERROR_WARNING", "ERROR_PASSIVE", "BUS_OFF"}
        => ChipStarted

(***************************************************************************)
(* Claim about calling a chip-control helper twice (SpecTwice).            *)
(***************************************************************************)
\* the helper returned 0 and the call that followed at once has returned
SecondCallReturned == ctl.fn = "twice" /\ ctl.op = "done" /\ arg # <<>>

\* the bits of MCR the driver writes have the value the first call left
\* and the status bit the helper waits for is at its target
SameMcrAsFirst ==
    /\ mcr \ McrStatus = arg[1] \ McrStatus
    /\ TargetReached(ctl.pc, mcr)

\* C21 as stated: for each of the five helpers, the call that follows a
\* successful call at once succeeds too and leaves MCR as the first did.
C21_IdempotentAllFive ==
    SecondCallReturned => (ctl.ret[2] = "OK" /\ SameMcrAsFirst)

\* C21 amended: enable, disable, freeze and unfreeze called again at once
\* after a success succeed and leave MCR as the first call did; a second
\* soft reset requests a new reset, and leaves MCR as the first did when it
\* succeeds.
C21_IdempotentExceptReset ==
    SecondCallReturned
        => /\ (ctl.pc # "softreset" => ctl.ret[2] = "OK")
           /\ (ctl.ret[2] = "OK" => SameMcrAsFirst)

\* C21 witness: a freeze that had to wait for the acknowledge succeeded and
\* the second freeze has returned
C21_Witness ==
    /\ SecondCallReturned
    /\ ctl.pc = "freeze"
    /\ ctl.ret = <<"freeze", "OK">>
    /\ FLEXCAN_MCR_HALT \subseteq mcr

(***************************************************************************)
(* Claim about the bus-error report (SpecBusErr).                          *)
(***************************************************************************)
\* a call of flexcan_poll_bus_err has built and delivered a report in this
\* step
BusErrReported == env'.obs < env.obs /\ arg'.ret = 1

\* the codes do_bus_err documents for the bus-error bits set in reg_esr are
\* all set in the frame cf
HasBusErrCodes(cf, reg_esr) ==
    /\ (FLEXCAN_ESR_BIT1_ERR \subseteq reg_esr)
         => HasCode(cf.data[3], CAN_ERR_PROT_BIT1)
    /\ (FLEXCAN_ESR_BIT0_ERR \subseteq reg_esr)
         => HasCode(cf.data[3], CAN_ERR_PROT_BIT0)
    /\ (FLEXCAN_ESR_ACK_ERR \subseteq reg_esr)
         => (/\ CAN_ERR_ACK \subseteq cf.can_id
             /\ LowBits(CAN_ERR_PROT_LOC_ACK, 8) \subseteq LowBits(cf.data[4], 8))
    /\ (FLEXCAN_ESR_CRC_ERR \subseteq reg_esr)
         => (/\ HasCode(cf.data[3], CAN_ERR_PROT_BIT)
             /\ HasCode(cf.data[4], CAN_ERR_PROT_LOC_CRC_SEQ))
    /\ (FLEXCAN_ESR_FRM_ERR \subseteq reg_esr)
         => HasCode(cf.data[3], CAN_ERR_PROT_FORM)
    /\ (FLEXCAN_ESR_STF_ERR \subseteq reg_esr)
         => HasCode(cf.data[3], CAN_ERR_PROT_STUFF)

\* 1 when reg_esr has one of the listed bits set, else 0
AnySet(reg_esr, bits) == IF reg_esr \cap bits # {} THEN 1 ELSE 0

\* C24: for every combination of the six bus-error bits a report sets the
\* protocol-error code of each bit that is set, adds one to tx_errors
\* exactly when a bit0, bit1 or acknowledge error is set, adds one to
\* rx_errors exactly when a CRC, form or stuff error is set, and adds one to
\* the bus-error counter.
C24_BusErrFrameAndCounters ==
    [][BusErrReported
          => (/\ Len(sink') = Len(sink) + 1
              /\ HasBusErrCodes(sink'[Len(sink')].cf, arg'.reg_esr)
              /\ stats'.tx_errors = stats.tx_errors
                    + AnySet(arg'.reg_esr,
                             FLEXCAN_ESR_BIT0_ERR \cup FLEXCAN_ESR_BIT1_ERR
                             \cup FLEXCAN_ESR_ACK_ERR)
              /\ stats'.rx_errors = stats.rx_errors
                    + AnySet(arg'.reg_esr,
                             FLEXCAN_ESR_CRC_ERR \cup FLEXCAN_ESR_FRM_ERR
                             \cup FLEXCAN_ESR_STF_ERR)
              /\ stats'.bus_error = stats.bus_error + 1)]_vars

\* C24 witness: a report for an acknowledge error together with a CRC
\* error: both codes are in the frame, both sides are counted once
C24_Witness ==
    /\ arg.ret = 1
    /\ arg.reg_esr \cap FLEXCAN_ESR_ERR_BUS
         = FLEXCAN_ESR_ACK_ERR \cup FLEXCAN_ESR_CRC_ERR
    /\ Len(sink) = 1
    /\ CAN_ERR_ACK \subseteq sink[1].cf.can_id
    /\ sink[1].cf.data[3] = CAN_ERR_PROT_BIT
    /\ stats.tx_errors = 1
    /\ stats.rx_errors = 1
    /\ stats.bus_error = 1

(***************************************************************************)
(* Claims about the poll consumer and the conservation of frames (SpecRx). *)
(***************************************************************************)
\* work_done of the running invocation of can_rx_offload_napi_poll
WorkDone == IF poll.pc = "idle" THEN 0 ELSE poll.work_done

\* C25: an invocation of the poll consumer with quota napi.weight counts in
\* work_done exactly the frames it delivers and never more than the quota;
\* it deschedules itself exactly when work_done is below the quota, then
\* schedules itself again if the queue is not empty, and stays scheduled
\* when work_done equals the quota.
C25_PollWithinQuotaThenReschedule ==
    [][/\ ((poll' # poll /\ poll'.pc \in {"loop", "done"})
             => (/\ poll'.work_done <= napi.weight
                 /\ Len(sink') - Len(sink) = poll'.work_done - WorkDone))
       /\ ((poll.pc = "done" /\ poll'.pc # "done")
             => (IF poll.work_done < napi.weight
                 THEN ~napi'.sched /\ ~napi'.listed /\ poll'.pc = "recheck"
                 ELSE napi' = napi /\ napi.sched /\ napi.listed
                      /\ poll'.pc = "idle"))
       /\ ((poll.pc = "recheck" /\ poll'.pc # "recheck")
             => (/\ poll'.work_done = poll.work_done
                 /\ ((skb_queue # <<>>) => (napi'.sched /\ napi'.listed))
                 /\ ((skb_queue = <<>>) => (napi' = napi))))]_vars

\* C25 witness: an invocation that found the queue empty has descheduled
\* itself while the drain was queueing a frame, and is back on the poll list
\* before the drain has asked for it
C25_Witness ==
    /\ poll.pc = "idle"
    /\ poll.work_done < napi.weight
    /\ irq.pc = "schedule"
    /\ skb_queue # <<>>
    /\ napi.listed
    /\ Len(sink) > 0

\* frames the drain has acknowledged to the hardware FIFO: every frame that
\* arrived and is no longer staged there
Acked == arrivals - Len(hwfifo)

\* the drain has read a frame and not yet linked it (between lines 929 and 931)
InHand == IF irq.pc = "queue_tail" THEN 1 ELSE 0

Conserved == Acked = Len(sink) + Len(skb_queue) + stats.rx_dropped + InHand

\* a step of the drain that acknowledges a frame either counts it as
\* dropped or hands it on to be queued, and the next step of the drain
\* queues the frame it was handed
AckedOnce ==
    /\ (Len(hwfifo') < Len(hwfifo)) =>
          (\/ /\ stats'.rx_dropped = stats.rx_dropped + 1
              /\ irq'.skb = NoSkb
              /\ irq'.pc # "queue_tail"
           \/ /\ stats'.rx_dropped = stats.rx_dropped
              /\ irq'.skb = <<MailboxFrame(Head(hwfifo))>>
              /\ irq'.pc = "queue_tail")
    /\ (irq.pc = "queue_tail" /\ irq' # irq) =>
          (/\ skb_queue' = Append(skb_queue, irq.skb[1])
           /\ stats'.rx_dropped = stats.rx_dropped)
    /\ (Len(hwfifo') = Len(hwfifo)) =>
          (stats'.rx_dropped = stats.rx_dropped)

\* C30 as stated: in every reachable state the frames acknowledged to the
\* hardware FIFO are the frames delivered by the poll consumer plus the
\* frames in the receive queue plus rx_dropped.
C30_FramesConserved ==
    Acked = Len(sink) + Len(skb_queue) + stats.rx_dropped

\* C30, amended: in every reachable state the frames acknowledged to the
\* hardware FIFO are the frames delivered plus the frames queued plus
\* rx_dropped plus the one frame the drain may have read and not yet
\* queued; every acknowledged frame is either counted as dropped or
\* queued by the next step of the drain, never both and never neither.
C30_FramesConservedInHand == [][Conserved /\ Conserved' /\ AckedOnce]_vars

\* frames have been delivered, queued and dropped, and none is in hand
C30_Witness ==
    /\ irq.pc = "idle"
    /\ Len(sink) > 0
    /\ skb_queue # <<>>
    /\ stats.rx_dropped > 0
    /\ Acked = arrivals

\* one step of the system seen from one invocation of the drain
DrainStep ==
    \* a discard ends the loop, even with the FIFO still holding frames
    /\ (stats'.rx_dropped # stats.rx_dropped) =>
          (/\ stats'.rx_dropped = stats.rx_dropped + 1
           /\ irq.pc = "offload_one"
           /\ irq'.pc = "schedule")
    \* once the loop has ended the invocation reads no further frame
    /\ (irq.pc = "schedule") => (irq'.pc \in {"schedule", "tail"})
    /\ (irq.pc = "tail") => (irq'.pc \in {"tail", "idle"})
    \* the invocation touches the poll context only if it queued a frame
    /\ (irq.pc = "schedule" /\ irq'.pc = "tail") =>
          (napi' = IF irq.received > 0 THEN napi_schedule(napi) ELSE napi)
    /\ (irq.pc # "idle" /\ irq.pc # "schedule" /\ irq' # irq) =>
          (napi' = napi)

\* C31: an invocation of can_rx_offload_irq_offload_fifo ends its loop at
\* the first frame it discards (queue over its limit or alloc_can_skb
\* failed), also when FIFO-available is still asserted, so that it discards
\* at most one frame; it calls can_rx_offload_schedule only if it queued at
\* least one frame.
C31_DrainStopsAtFirstDiscard == [][DrainStep]_vars

\* the drain has queued a frame, discarded the next because the queue was
\* over its limit, and left its loop while the FIFO still holds a frame
C31_Witness ==
    /\ irq.pc = "schedule"
    /\ irq.drop
    /\ irq.received > 0
    /\ stats.rx_dropped > 0
    /\ hwfifo # <<>>
    /\ FLEXCAN_IFLAG_RX_FIFO_AVAILABLE \subseteq iflag1

(***************************************************************************)
(* Claim about the wake-up of the poll consumer (SpecStart).               *)
(***************************************************************************)
\* C26: a frame that the drain has queued on a device that is open is
\* eventually delivered to the sink by the poll consumer, with no further
\* interrupt needed: whenever the queue of the open device is not empty it
\* becomes empty later, under fairness of the polling context alone.
C26_NoLostWakeup == (DeviceUp /\ skb_queue # <<>>) ~> (skb_queue = <<>>)

(***************************************************************************)
(* Claims about the interrupt handler taken block by block (SpecIrq).      *)
(***************************************************************************)
\* the position of a block of flexcan_napi_irq in the text of the handler
IrqRank(pc) ==
    CASE pc = "idle" -> 0
      [] pc \in {"offload_one", "queue_tail"} -> 1
      [] pc = "schedule" -> 2
      [] pc = "tail" -> 3
      [] pc = "tx_complete" -> 4
      [] pc = "esr_ack" -> 5

CapturedOverflow == FLEXCAN_IFLAG_RX_FIFO_OVERFLOW \subseteq irq.reg_iflag1

\* one step of the system seen from the handler
IrqStepOrdered ==
    \* the captured registers are not read again
    /\ (irq.pc # "idle") =>
          (irq'.reg_iflag1 = irq.reg_iflag1 /\ irq'.reg_esr = irq.reg_esr)
    \* the blocks are taken in the order of the text
    /\ (irq'.pc # irq.pc) =>
          (\/ IrqRank(irq'.pc) >= IrqRank(irq.pc)
           \/ (irq.pc = "esr_ack" /\ irq'.pc = "idle"))
    \* draining and scheduling happen in the first block only
    /\ (skb_queue' # skb_queue \/ Len(hwfifo') < Len(hwfifo) \/ napi' # napi)
          => (IrqRank(irq.pc) \in {1, 2})
    \* overflow counting is the second block and follows the captured flag
    /\ (stats'.rx_over_errors # stats.rx_over_errors
         \/ stats'.rx_errors # stats.rx_errors) => (irq.pc = "tail")
    /\ (irq.pc = "tail" /\ irq'.pc # "tail") =>
          (IF CapturedOverflow
           THEN /\ stats'.rx_over_errors = stats.rx_over_errors + 1
                /\ stats'.rx_errors = stats.rx_errors + 1
                /\ iflag1' \cap FLEXCAN_IFLAG_RX_FIFO_OVERFLOW = {}
           ELSE /\ stats'.rx_over_errors = stats.rx_over_errors
                /\ stats'.rx_errors = stats.rx_errors
                /\ iflag1' = iflag1)
    \* transmit completion is the third block
    /\ (stats'.tx_packets # stats.tx_packets \/ stats'.tx_bytes # stats.tx_bytes)
          => (irq.pc = "tx_complete")
    \* on return no captured event bit of ESR is left set
    /\ (irq.pc # "idle" /\ irq'.pc = "idle") =>
          (esr' \cap (irq.reg_esr \cap FLEXCAN_ESR_ALL_INT) = {})

\* C27: every invocation of flexcan_napi_irq reads IFLAG1 and ESR once, then
\* handles what it captured in the order FIFO drain and schedule, overflow
\* counting (flag acknowledged, rx_over_errors and rx_errors each one
\* more), transmit completion; when it returns, every interrupt bit of ESR
\* (warning, bus-off, error, wake) set in the captured value has been
\* written back and is clear.
C27_HandlerOrderAndEsrAck == [][IrqStepOrdered]_vars

\* an invocation that captured FIFO-available, overflow, transmit-complete
\* and an ESR interrupt bit has returned
C27_Witness ==
    /\ irq.pc = "idle"
    /\ irq.ret = "IRQ_HANDLED"
    /\ irq.received > 0
    /\ CapturedOverflow
    /\ FLEXCAN_IFLAG_BUF(FLEXCAN_TX_BUF_ID) \subseteq irq.reg_iflag1
    /\ irq.reg_esr \cap FLEXCAN_ESR_ALL_INT # {}
    /\ stats.rx_over_errors = 1
    /\ stats.tx_packets = 1

(***************************************************************************)
(* Claims about the accounting of transmitted frames (SpecPm).             *)
(***************************************************************************)
\* the handler takes its transmit-complete block with the flag captured
TxCompleteHandled ==
    /\ FLEXCAN_IFLAG_BUF(FLEXCAN_TX_BUF_ID) \subseteq irq.reg_iflag1
    /\ \/ irq.pc = "tail" /\ irq'.pc = "idle"
       \/ irq.pc = "tx_complete" /\ irq'.pc = "esr_ack"

\* one step of the system seen from the transmit counters
TxAccounting ==
    /\ TxCompleteHandled =>
          (/\ stats'.tx_packets = stats.tx_packets + 1
           /\ stats'.tx_bytes = stats.tx_bytes + MailboxFrame(mb_tx).can_dlc
           /\ iflag1' \cap FLEXCAN_IFLAG_BUF(FLEXCAN_TX_BUF_ID) = {}
           /\ txq' = "started")
    /\ (~TxCompleteHandled) =>
          (/\ stats'.tx_packets = stats.tx_packets
           /\ stats'.tx_bytes = stats.tx_bytes)
    /\ stats'.tx_packets <= Len(arg')

\* C28: each handled transmit-complete interrupt adds one to tx_packets and
\* the length of the frame the mailbox has sent to tx_bytes, acknowledges
\* the flag of the transmit mailbox and wakes the transmit queue; nothing
\* else changes the two counters, and tx_packets never exceeds the number
\* of frames flexcan_start_xmit has written to the mailbox.
C28_TxCompleteAccounting == [][TxAccounting]_vars
====
